---- MODULE Spec2Model ----
\* Triad Progressions (sketch.js): chord parsing, the three voicing modes,
\* slash-bass handling, register fitting and spacing repair, and the
\* generate entry point with its stored result state.
\*
\* Conventions of the model
\*   - a chord is a sequence of integers (MIDI pitches);
\*   - JavaScript null is NoVal (-1) for slashPc, prevBassMidi and midiNear's best;
\*   - text is a sequence of one-character strings;
\*   - bassWeight is kept in tenths (the slider value 1.2 is 12), and every score
\*     that the code computes with bassWeight is kept multiplied by 10.
EXTENDS Integers, Sequences, FiniteSets, TLC

\* ---------------------------------------------------------------------------
\* Utilities
\* ---------------------------------------------------------------------------

NoVal == -1

BASS_CEILING_MIDI == 60

GuardMax == 24

\* Math.min and Math.max exchanged: Math.min(a, Math.max(b, n))
clamp_MinMaxSwapped(n, a, b) == IF (IF b > n THEN b ELSE n) > a THEN a ELSE (IF b > n THEN b ELSE n)

clamp(n, a, b) == IF (IF b < n THEN b ELSE n) < a THEN a ELSE (IF b < n THEN b ELSE n)

Abs(n) == IF n < 0 THEN -n ELSE n

pcOf(m) == m % 12

RECURSIVE Insert(_, _)
Insert(s, v) ==
  IF s = <<>> THEN <<v>>
  ELSE IF v < Head(s) THEN <<v>> \o s
  ELSE <<Head(s)>> \o Insert(Tail(s), v)

RECURSIVE sortAsc(_)
sortAsc(a) == IF a = <<>> THEN <<>> ELSE Insert(sortAsc(Tail(a)), Head(a))

Min2(a, b) == IF a < b THEN a ELSE b

Max2(a, b) == IF a > b THEN a ELSE b

\* Math.min(...x)
RECURSIVE SeqMin(_)
SeqMin(x) == IF Len(x) = 1 THEN x[1] ELSE Min2(x[1], SeqMin(Tail(x)))

\* Math.max(...x)
RECURSIVE SeqMax(_)
SeqMax(x) == IF Len(x) = 1 THEN x[1] ELSE Max2(x[1], SeqMax(Tail(x)))

RECURSIVE MapAdd(_, _)
MapAdd(x, d) == IF x = <<>> THEN <<>> ELSE <<Head(x) + d>> \o MapAdd(Tail(x), d)

RECURSIVE MapClamp(_)
MapClamp(x) == IF x = <<>> THEN <<>> ELSE <<clamp(Head(x), 0, 127)>> \o MapClamp(Tail(x))

\* while (n < lim && guard++ < 24) n += 12
RECURSIVE UpWhileBelow(_, _, _)
UpWhileBelow(n, lim, g) ==
  IF n < lim /\ g < GuardMax THEN UpWhileBelow(n + 12, lim, g + 1) ELSE n

\* while (n <= lim && guard++ < 24) n += 12
RECURSIVE UpWhileNotAbove(_, _, _)
UpWhileNotAbove(n, lim, g) ==
  IF n <= lim /\ g < GuardMax THEN UpWhileNotAbove(n + 12, lim, g + 1) ELSE n

\* while (n > lim && guard++ < 24) n -= 12
RECURSIVE DownWhileAbove(_, _, _)
DownWhileAbove(n, lim, g) ==
  IF n > lim /\ g < GuardMax THEN DownWhileAbove(n - 12, lim, g + 1) ELSE n

\* while (n >= lim && guard++ < 24) n -= 12
RECURSIVE DownWhileNotBelow(_, _, _)
DownWhileNotBelow(n, lim, g) ==
  IF n >= lim /\ g < GuardMax THEN DownWhileNotBelow(n - 12, lim, g + 1) ELSE n

\* for (i = from; i < x.length; i++) while (x[i] <= x[i-1] && g++ < 24) x[i] += 12
\* (from is the 1-based index of the first voice that is re-ascended)
RECURSIVE ReAscend(_, _)
ReAscend(x, from) ==
  IF from > Len(x) THEN x
  ELSE ReAscend([x EXCEPT ![from] = UpWhileNotAbove(x[from], x[from - 1], 0)], from + 1)

\* for (o = baseOct - 2; o <= baseOct + 2; o++) keep the strictly closest in-range candidate
RECURSIVE midiNearLoop(_, _, _, _, _, _)
midiNearLoop(pc, targetMidi, o, oEnd, best, bestCost) ==
  IF o > oEnd THEN best
  ELSE LET cand == o * 12 + pc
           cost == Abs(cand - targetMidi)
       IN IF cand >= 0 /\ cand <= 127 /\ cost < bestCost
          THEN midiNearLoop(pc, targetMidi, o + 1, oEnd, cand, cost)
          ELSE midiNearLoop(pc, targetMidi, o + 1, oEnd, best, bestCost)

\* return best == null ? clamp(targetMidi, 0, 127) : best
midiNearResult(best, targetMidi) == IF best = NoVal THEN clamp(targetMidi, 0, 127) ELSE best

midiNear(pc, targetMidi) ==
  midiNearResult(midiNearLoop(pc, targetMidi, (targetMidi \div 12) - 2, (targetMidi \div 12) + 2,
                              NoVal, 1000000000),
                 targetMidi)

\* ---------------------------------------------------------------------------
\* Triads
\* ---------------------------------------------------------------------------

triadPCs(rootPc, qual) ==
  <<rootPc, (rootPc + (IF qual = "min" THEN 3 ELSE 4)) % 12, (rootPc + 7) % 12>>

voiceClose(rootMidi, qual) ==
  sortAsc(MapClamp(ReAscend(sortAsc(<<rootMidi,
                                      midiNear(triadPCs(rootMidi % 12, qual)[2], rootMidi + 4),
                                      midiNear(triadPCs(rootMidi % 12, qual)[3], rootMidi + 7)>>),
                            2)))

\* ---------------------------------------------------------------------------
\* Register fitting
\* ---------------------------------------------------------------------------

\* while (Math.min(...x) < lo && guard++ < 24) x = x.map(n => n + 12)
RECURSIVE ShiftAllUp(_, _, _)
ShiftAllUp(x, lo, g) ==
  IF SeqMin(x) < lo /\ g < GuardMax THEN ShiftAllUp(MapAdd(x, 12), lo, g + 1) ELSE x

\* the whole-chord shift down never entered
ShiftAllDown_Never(x, hi, g) == x

\* while (Math.max(...x) > hi && guard++ < 24) x = x.map(n => n - 12)
RECURSIVE ShiftAllDown(_, _, _)
ShiftAllDown(x, hi, g) ==
  IF SeqMax(x) > hi /\ g < GuardMax THEN ShiftAllDown(MapAdd(x, -12), hi, g + 1) ELSE x

\* while (n > hi && (n - 12) > prev && (n - 12) >= lo && guard++ < 24) n -= 12
RECURSIVE PullDownAbovePrev(_, _, _, _, _)
PullDownAbovePrev(n, prev, lo, hi, g) ==
  IF n > hi /\ (n - 12) > prev /\ (n - 12) >= lo /\ g < GuardMax
  THEN PullDownAbovePrev(n - 12, prev, lo, hi, g + 1)
  ELSE n

\* the two loops under "if (i > 0)": above the previous note, then down while above hi
aboveThePrevious(n, prev, lo, hi) ==
  PullDownAbovePrev(UpWhileNotAbove(n, prev, 0), prev, lo, hi, 0)

\* the two loops before "if (i > 0)": up while below lo, then down while above hi
intoRange(n, lo, hi) == DownWhileAbove(UpWhileBelow(n, lo, 0), hi, 0)

\* "if (i > 0) { ... }" of the wrap loop, n being the note brought into range (i is 1-based)
wrapAbove(x, i, n, lo, hi) == IF i > 1 THEN aboveThePrevious(n, x[i - 1], lo, hi) ELSE n

\* one pass of the loop "wrap each note + keep ascending" for index i (1-based)
wrapNote(x, i, lo, hi) ==
  [x EXCEPT ![i] = clamp(wrapAbove(x, i, intoRange(x[i], lo, hi), lo, hi), 0, 127)]

RECURSIVE wrapNotes(_, _, _, _)
wrapNotes(x, i, lo, hi) ==
  IF i > Len(x) THEN x ELSE wrapNotes(wrapNote(x, i, lo, hi), i + 1, lo, hi)

\* fitChordToRange after "let x = sortAsc(ch)"
fitSorted(x, lo, hi) ==
  IF Len(x) = 0 THEN x
  ELSE LET x1 == ShiftAllUp(x, lo, 0)
           x2 == ShiftAllDown(x1, hi, 0)
           x3 == wrapNotes(x2, 1, lo, hi)
           x4 == ShiftAllUp(x3, lo, 0)
           x5 == ShiftAllDown(x4, hi, 0)
       IN sortAsc(MapClamp(x5))

fitChordToRange(ch, lo, hi) == fitSorted(sortAsc(ch), lo, hi)

\* enforceBassBelowC4Safe between the sort and the final fit: the bass below C4 and not below
\* lo, the other voices re-ascended
bassBelowCeiling(x, lo) ==
  ReAscend([x EXCEPT ![1] = UpWhileBelow(DownWhileNotBelow(x[1], BASS_CEILING_MIDI, 0), lo, 0)], 2)

\* both returns end in fitChordToRange: of ch when lo >= BASS_CEILING_MIDI, else of the
\* chord with its bass brought below the ceiling
\* (the bass is never brought down: the chord is only re-fitted, whatever lo is)
enforceBassBelowC4Safe_OnlyRefit(ch, lo, hi) ==
  IF Len(ch) = 0 THEN ch
  ELSE fitChordToRange(ch, lo, hi)

enforceBassBelowC4Safe(ch, lo, hi) ==
  IF Len(ch) = 0 THEN ch
  ELSE fitChordToRange(IF lo >= BASS_CEILING_MIDI THEN ch
                       ELSE bassBelowCeiling(MapClamp(sortAsc(ch)), lo),
                       lo, hi)

\* ---------------------------------------------------------------------------
\* Spacing repair
\* ---------------------------------------------------------------------------

\* while ((x[1] - x[0]) < minSep && guard++ < 24) x[1] += 12
RECURSIVE SeparateSecond(_, _, _, _)
SeparateSecond(second, bass, minSep, g) ==
  IF (second - bass) < minSep /\ g < GuardMax
  THEN SeparateSecond(second + 12, bass, minSep, g + 1)
  ELSE second

\* step 1 of enforceTriadSpacingSafe before its fit: the second voice at least minSep above
\* the bass, the following voices re-ascended
separateBottom(x, minSep) ==
  ReAscend([x EXCEPT ![2] = SeparateSecond(x[2], x[1], minSep, 0)], 3)

\* for (i = x.length - 1; i >= 1; i--) pull x[i] an octave down when it stays above x[i-1] and >= lo
\* (i is 1-based here; the result carries the "changed" flag)
RECURSIVE tightenDown(_, _, _, _)
tightenDown(x, i, lo, changed) ==
  IF i < 2 THEN [x |-> x, changed |-> changed]
  ELSE IF x[i] - 12 > x[i - 1] /\ x[i] - 12 >= lo
       THEN tightenDown([x EXCEPT ![i] = x[i] - 12], i - 1, lo, TRUE)
       ELSE tightenDown(x, i - 1, lo, changed)

PassMax == 8

\* for (pass = 0; pass < 8; pass++) { ... }
RECURSIVE tightenSpread(_, _, _, _, _)

\* the end of one pass: "x = fitChordToRange(x, lo, hi); if (!changed) break;"
tightenNext(x, changed, lo, hi, maxSpread, pass) ==
  IF ~changed THEN x ELSE tightenSpread(x, lo, hi, maxSpread, pass + 1)

\* the pass after its pull-down loop: re-ascend, fit
tightenRefit(t, lo, hi, maxSpread, pass) ==
  tightenNext(fitChordToRange(ReAscend(t.x, 2), lo, hi), t.changed, lo, hi, maxSpread, pass)

\* the pass after "x = sortAsc(x)"
tightenPass(x, lo, hi, maxSpread, pass) ==
  IF x[Len(x)] - x[1] <= maxSpread THEN x
  ELSE tightenRefit(tightenDown(x, Len(x), lo, FALSE), lo, hi, maxSpread, pass)

tightenSpread(xIn, lo, hi, maxSpread, pass) ==
  IF pass >= PassMax THEN xIn ELSE tightenPass(sortAsc(xIn), lo, hi, maxSpread, pass)

\* x[2] -= 12; if (x[2] <= x[1]) x[2] += 12
dropTop(x) == [x EXCEPT ![3] = IF x[3] - 12 <= x[2] THEN x[3] ELSE x[3] - 12]

SafetyMax == 8

\* the last-resort loop without its safety counter
lastResortGoesOn_NoCap(x, maxSpread, safety) ==
  Len(x) >= 3 /\ (x[3] - x[1]) > (maxSpread + 12)

\* x.length >= 3 && (x[2] - x[0]) > (maxSpread + 12) && safety++ < 8
lastResortGoesOn(x, maxSpread, safety) ==
  Len(x) >= 3 /\ (x[3] - x[1]) > (maxSpread + 12) /\ safety < SafetyMax

\* the body of the last-resort loop
lastResortBody(x, lo, hi) == sortAsc(fitChordToRange(dropTop(x), lo, hi))

\* while (x.length >= 3 && (x[2] - x[0]) > (maxSpread + 12) && safety++ < 8) { ... }
RECURSIVE lastResort(_, _, _, _, _)
lastResort(x, lo, hi, maxSpread, safety) ==
  IF lastResortGoesOn(x, maxSpread, safety)
  THEN lastResort(lastResortBody(x, lo, hi), lo, hi, maxSpread, safety + 1)
  ELSE x

enforceTriadSpacingSafe(ch, lo, hi, minSep, maxSpread) ==
  IF Len(ch) < 2 THEN ch
  ELSE LET x0 == fitChordToRange(sortAsc(ch), lo, hi)
           x1 == separateBottom(x0, minSep)
           x2 == fitChordToRange(x1, lo, hi)
           x3 == tightenSpread(x2, lo, hi, maxSpread, 0)
           x4 == sortAsc(enforceBassBelowC4Safe(x3, lo, hi))
       IN sortAsc(lastResort(x4, lo, hi, maxSpread, 0))

\* ---------------------------------------------------------------------------
\* Slash bass
\* ---------------------------------------------------------------------------

MinSepDefault == 7

MaxSpreadDefault == 19

ScoreInf == 1000000000

RemoveAt(x, idx) == SubSeq(x, 1, idx - 1) \o SubSeq(x, idx + 1, Len(x))

ContainsPc(chord, wantPc) == \E j \in 1..Len(chord) : chord[j] % 12 = wantPc

\* "best ? best : fallback", <<>> standing for null
orElse(best, fallback) == IF best # <<>> THEN best ELSE fallback

\* body of the loop over idx in the chord-tone branch: the candidate built around chord[idx]
slashStacked(chord, idx, lo, hi) ==
  LET bassCeil == IF lo < BASS_CEILING_MIDI THEN BASS_CEILING_MIDI - 1 ELSE hi
      bass == UpWhileBelow(DownWhileAbove(chord[idx], bassCeil, 0), lo, 0)
      stacked == ReAscend(sortAsc(MapClamp(<<bass>> \o RemoveAt(chord, idx))), 2)
  IN enforceTriadSpacingSafe(fitChordToRange(stacked, lo, hi), lo, hi,
                             MinSepDefault, MaxSpreadDefault)

\* score = bassWeight * bassCost, in tenths
slashScore(stacked, prevBassMidi, bassWeight) ==
  bassWeight * (IF prevBassMidi = NoVal THEN 0 ELSE Abs(stacked[1] - prevBassMidi))

\* for (idx = 0; idx < chord.length; idx++) { ... }; best = <<>> stands for null
RECURSIVE slashBestLoop(_, _, _, _, _, _, _, _, _)

\* if (score < bestScore) { bestScore = score; best = stacked; }
slashKeep(chord, wantPc, idx, lo, hi, prevBassMidi, bassWeight, best, bestScore, stacked, score) ==
  IF score < bestScore
  THEN slashBestLoop(chord, wantPc, idx + 1, lo, hi, prevBassMidi, bassWeight, stacked, score)
  ELSE slashBestLoop(chord, wantPc, idx + 1, lo, hi, prevBassMidi, bassWeight, best, bestScore)

slashTry(chord, wantPc, idx, lo, hi, prevBassMidi, bassWeight, best, bestScore, stacked) ==
  slashKeep(chord, wantPc, idx, lo, hi, prevBassMidi, bassWeight, best, bestScore, stacked,
            slashScore(stacked, prevBassMidi, bassWeight))

slashBestLoop(chord, wantPc, idx, lo, hi, prevBassMidi, bassWeight, best, bestScore) ==
  IF idx > Len(chord) THEN best
  ELSE IF chord[idx] % 12 # wantPc
       THEN slashBestLoop(chord, wantPc, idx + 1, lo, hi, prevBassMidi, bassWeight, best, bestScore)
       ELSE slashTry(chord, wantPc, idx, lo, hi, prevBassMidi, bassWeight, best, bestScore,
                     slashStacked(chord, idx, lo, hi))

\* the branch "slash is NOT chord tone: add an extra bass note", up to "out = [bass, ...chord]"
slashExtraOut(chord, wantPc, targetBassMidi, lo, prevBassMidi) ==
  LET target == IF prevBassMidi = NoVal THEN targetBassMidi ELSE prevBassMidi
      b0 == clamp(midiNear(wantPc, target), 0, 127)
      b1 == IF lo < BASS_CEILING_MIDI
            THEN UpWhileBelow(DownWhileNotBelow(b0, BASS_CEILING_MIDI, 0), lo, 0)
            ELSE UpWhileBelow(b0, lo, 0)
      b2 == UpWhileBelow(DownWhileNotBelow(b1, SeqMin(chord), 0), lo, 0)
  IN <<clamp(b2, 0, 127)>> \o chord

\* the two returns of applySlashBass that fit and space a chord built without the loop:
\*   const fallback = enforceTriadSpacingSafe(fitChordToRange(chord, lo, hi), lo, hi, 7, 19)
\*   return enforceTriadSpacingSafe(fitChordToRange(out, lo, hi), lo, hi, 7, 19)
slashSpaced(contains, chord, wantPc, targetBassMidi, lo, hi, prevBassMidi) ==
  enforceTriadSpacingSafe(
    fitChordToRange(IF contains THEN chord
                    ELSE slashExtraOut(chord, wantPc, targetBassMidi, lo, prevBassMidi),
                    lo, hi),
    lo, hi, MinSepDefault, MaxSpreadDefault)

\* applySlashBass once "contains" is known: return best ? best : fallback when the slash
\* note is a chord tone, the chord with the extra bass note when it is not
slashContains(contains, chord, wantPc, targetBassMidi, lo, hi, prevBassMidi, bassWeight) ==
  orElse(IF contains
         THEN slashBestLoop(chord, wantPc, 1, lo, hi, prevBassMidi, bassWeight, <<>>, ScoreInf)
         ELSE <<>>,
         slashSpaced(contains, chord, wantPc, targetBassMidi, lo, hi, prevBassMidi))

\* applySlashBass after "let chord = sortAsc(ch)" and wantPc
slashSorted(chord, wantPc, targetBassMidi, lo, hi, prevBassMidi, bassWeight) ==
  slashContains(ContainsPc(chord, wantPc), chord, wantPc, targetBassMidi, lo, hi,
                prevBassMidi, bassWeight)

applySlashBass(ch, slashPc, targetBassMidi, lo, hi, prevBassMidi, bassWeight) ==
  IF slashPc = NoVal THEN ch
  ELSE slashSorted(sortAsc(ch), slashPc % 12, targetBassMidi, lo, hi, prevBassMidi, bassWeight)

\* ---------------------------------------------------------------------------
\* Voice-led candidates and selection
\* ---------------------------------------------------------------------------

RECURSIVE motionSum(_, _, _, _)
motionSum(a, b, i, L) ==
  IF i > L THEN 0 ELSE Abs(a[i] - b[i]) + motionSum(a, b, i + 1, L)

\* motionCost after the two sorts
motionSorted(a, b) == motionSum(a, b, 1, IF Len(a) < Len(b) THEN Len(a) ELSE Len(b))

motionCost(prevChord, candChord) == motionSorted(sortAsc(prevChord), sortAsc(candChord))

\* the candidate once a, the shifted b and the unshifted c are known
candidateTop(a, b, c0, lo, hi) ==
  fitChordToRange(<<a, b, UpWhileNotAbove(c0, b, 0)>>, lo, hi)

\* the candidate once the unshifted b = midiNear(inv[1], a + 4) is known
\* (c is taken near the unshifted b, then pushed above the shifted one)
candidateMid(a, b0, pcC, lo, hi) ==
  candidateTop(a, UpWhileNotAbove(b0, a, 0), midiNear(pcC, b0 + 4), lo, hi)

\* body of the loop over shift for one inversion
candidateAt(inv, base, shift, lo, hi) ==
  candidateMid(base + 12 * shift, midiNear(inv[2], base + 12 * shift + 4), inv[3], lo, hi)

\* de-duplication through the Set of joined keys: first occurrence kept, order kept
RECURSIVE uniqChords(_, _)
uniqChords(cands, acc) ==
  IF cands = <<>> THEN acc
  ELSE IF \E k \in 1..Len(acc) : acc[k] = Head(cands)
       THEN uniqChords(Tail(cands), acc)
       ELSE uniqChords(Tail(cands), Append(acc, Head(cands)))

\* the three inversions of the triad pitch classes
inversionsOf(pcs) ==
  << <<pcs[1], pcs[2], pcs[3]>>, <<pcs[2], pcs[3], pcs[1]>>, <<pcs[3], pcs[1], pcs[2]>> >>

\* the k-th candidate (k = 1..15): inversion (k-1) div 5, shift ((k-1) mod 5) - 2
candidateOf(inv, shift, targetMidi, lo, hi) ==
  candidateAt(inv, midiNear(inv[1], targetMidi), shift, lo, hi)

candidatesForTriad(rootPc, qual, targetMidi, lo, hi) ==
  uniqChords([k \in 1..15 |->
                candidateOf(inversionsOf(triadPCs(rootPc, qual))[((k - 1) \div 5) + 1],
                            ((k - 1) % 5) - 2, targetMidi, lo, hi)],
             <<>>)

targetBassOf(lo, hi) == lo + ((2 * (hi - lo) + 5) \div 10)

\* const prevBass = prev ? sortAsc(prev)[0] : null
prevBassOfPrev(prev) == IF prev # <<>> THEN sortAsc(prev)[1] ELSE NoVal

\* the chord built from one candidate: fit, slash bass, spacing
voiceLeadCandidate(cand, spec, prevBass, lo, hi, bassWeight) ==
  enforceTriadSpacingSafe(
    applySlashBass(fitChordToRange(cand, lo, hi), spec.slashPc, targetBassOf(lo, hi), lo, hi,
                   prevBass, bassWeight),
    lo, hi, MinSepDefault, MaxSpreadDefault)

\* score = upper + bassWeight * bass, in tenths
voiceLeadScore(ch, prev, prevBass, bassWeight) ==
  10 * (IF prev # <<>> THEN motionCost(prev, ch) ELSE 0)
  + bassWeight * (IF prevBass = NoVal \/ Len(ch) = 0 THEN 0 ELSE Abs(ch[1] - prevBass))

\* for (const cand of cands) { ... }; best = <<>> stands for null
RECURSIVE voiceLeadBest(_, _, _, _, _, _, _, _, _, _)

\* if (score < bestScore) { bestScore = score; best = ch; }
\* (the comparison is turned round: a later candidate with a larger score is kept)
voiceLeadKeep_Largest(cands, k, spec, prev, prevBass, lo, hi, bassWeight, best, bestScore, ch, score) ==
  IF best = <<>> \/ score > bestScore
  THEN voiceLeadBest(cands, k + 1, spec, prev, prevBass, lo, hi, bassWeight, ch, score)
  ELSE voiceLeadBest(cands, k + 1, spec, prev, prevBass, lo, hi, bassWeight, best, bestScore)

\* (the comparison is <=: of two candidates with the same score the later one is kept)
voiceLeadKeep_LaterWinsTies(cands, k, spec, prev, prevBass, lo, hi, bassWeight, best, bestScore, ch, score) ==
  IF score <= bestScore
  THEN voiceLeadBest(cands, k + 1, spec, prev, prevBass, lo, hi, bassWeight, ch, score)
  ELSE voiceLeadBest(cands, k + 1, spec, prev, prevBass, lo, hi, bassWeight, best, bestScore)

voiceLeadKeep(cands, k, spec, prev, prevBass, lo, hi, bassWeight, best, bestScore, ch, score) ==
  IF score < bestScore
  THEN voiceLeadBest(cands, k + 1, spec, prev, prevBass, lo, hi, bassWeight, ch, score)
  ELSE voiceLeadBest(cands, k + 1, spec, prev, prevBass, lo, hi, bassWeight, best, bestScore)

voiceLeadTry(cands, k, spec, prev, prevBass, lo, hi, bassWeight, best, bestScore, ch) ==
  voiceLeadKeep(cands, k, spec, prev, prevBass, lo, hi, bassWeight, best, bestScore, ch,
                voiceLeadScore(ch, prev, prevBass, bassWeight))

voiceLeadBest(cands, k, spec, prev, prevBass, lo, hi, bassWeight, best, bestScore) ==
  IF k > Len(cands) THEN best
  ELSE voiceLeadTry(cands, k, spec, prev, prevBass, lo, hi, bassWeight, best, bestScore,
                    voiceLeadCandidate(cands[k], spec, prevBass, lo, hi, bassWeight))

\* cands.length ? cands : [fitChordToRange(voiceClose(...), lo, hi)]
candsOrClose(cands, spec, lo, hi) ==
  IF Len(cands) > 0 THEN cands
  ELSE << fitChordToRange(voiceClose(spec.rootMidi, spec.qual), lo, hi) >>

\* body of the loop over chordSpecs in voiceLeadSequenceSmart: the chord emitted after prev
voiceLeadStep(spec, prev, lo, hi, bassWeight) ==
  orElse(voiceLeadBest(candsOrClose(candidatesForTriad(spec.rootMidi % 12, spec.qual, 60, lo, hi),
                                    spec, lo, hi),
                       1, spec, prev, prevBassOfPrev(prev), lo, hi, bassWeight, <<>>, ScoreInf),
         enforceTriadSpacingSafe(fitChordToRange(voiceClose(spec.rootMidi, spec.qual), lo, hi),
                                 lo, hi, MinSepDefault, MaxSpreadDefault))

RECURSIVE voiceLeadSequenceSmart(_, _, _, _, _)

\* out.push(best); prev = best;
voiceLeadPush(best, rest, lo, hi, bassWeight) ==
  <<best>> \o voiceLeadSequenceSmart(rest, best, lo, hi, bassWeight)

voiceLeadSequenceSmart(chordSpecs, prev, lo, hi, bassWeight) ==
  IF chordSpecs = <<>> THEN <<>>
  ELSE voiceLeadPush(voiceLeadStep(Head(chordSpecs), prev, lo, hi, bassWeight),
                     Tail(chordSpecs), lo, hi, bassWeight)

\* ---------------------------------------------------------------------------
\* Open voicing
\* ---------------------------------------------------------------------------

MAX_SPREAD_PREF == 16

\* scoreTop after its loop; score is kept multiplied by 20 (over * 5 + highPenalty * 0.05)
scoreOfTop(tt, bass) ==
  [tt |-> tt,
   score |-> (IF tt - bass - MAX_SPREAD_PREF > 0 THEN tt - bass - MAX_SPREAD_PREF ELSE 0) * 100
             + (IF tt - 72 > 0 THEN tt - 72 ELSE 0)]

scoreTop(t, mid, bass) == scoreOfTop(UpWhileNotAbove(t, mid, 0), bass)

\* let top = (sA.score <= sB.score) ? sA.tt : sB.tt
pickTop(sA, sB) == IF sA.score <= sB.score THEN sA.tt ELSE sB.tt

\* the bass of the open voicing: near the previous bass (or 57), below C4 when lo allows
openBass(pc0, lo, prevBassMidi) ==
  LET bassTarget == IF prevBassMidi = NoVal THEN 57 ELSE prevBassMidi
      b0 == clamp(midiNear(pc0, bassTarget), 0, 127)
  IN IF lo < BASS_CEILING_MIDI
     THEN UpWhileBelow(DownWhileNotBelow(b0, BASS_CEILING_MIDI, 0), lo, 0)
     ELSE UpWhileBelow(b0, lo, 0)

\* the chord once bass and mid are known
openAbove(bass, mid, pc2, lo, hi) ==
  enforceTriadSpacingSafe(
    fitChordToRange(<<bass, mid, pickTop(scoreTop(midiNear(pc2, mid + 4), mid, bass),
                                         scoreTop(midiNear(pc2, mid + 16), mid, bass))>>,
                    lo, hi),
    lo, hi, MinSepDefault, MaxSpreadDefault)

\* the chord once the bass is known: mid at least a fifth above it
openFromBass(bass, pc1, pc2, lo, hi) ==
  openAbove(bass, SeparateSecond(midiNear(pc1, bass + 7), bass, 7, 0), pc2, lo, hi)

voiceOpenOrderedPCs(orderPCs, lo, hi, prevBassMidi) ==
  openFromBass(openBass(orderPCs[1] % 12, lo, prevBassMidi),
               orderPCs[2] % 12, orderPCs[3] % 12, lo, hi)

\* the order voiceOpenWithSlash asks for
\* (with the third in the bass the fifth is put in the middle)
openOrder_FifthInMiddle(pcs, slashPc) ==
  IF slashPc = NoVal THEN <<pcs[1], pcs[3], pcs[2]>>
  ELSE IF slashPc % 12 = pcs[2] THEN <<pcs[2], pcs[3], pcs[1]>>
  ELSE IF slashPc % 12 = pcs[3] THEN <<pcs[3], pcs[2], pcs[1]>>
  ELSE <<pcs[1], pcs[3], pcs[2]>>

\* the order voiceOpenWithSlash asks for, pcs being [root, third, fifth]:
\* no slash [root, fifth, third]; slash is the third [third, root, fifth];
\* slash is the fifth [fifth, third, root]; slash is the root or no chord tone [root, fifth, third]
openOrder(pcs, slashPc) ==
  IF slashPc = NoVal THEN <<pcs[1], pcs[3], pcs[2]>>
  ELSE IF slashPc % 12 = pcs[2] THEN <<pcs[2], pcs[1], pcs[3]>>
  ELSE IF slashPc % 12 = pcs[3] THEN <<pcs[3], pcs[2], pcs[1]>>
  ELSE <<pcs[1], pcs[3], pcs[2]>>

voiceOpenWithSlash(rootPc, qual, slashPc, lo, hi, prevBassMidi) ==
  voiceOpenOrderedPCs(openOrder(triadPCs(rootPc, qual), slashPc), lo, hi, prevBassMidi)

\* const chordToneSlash = (spec.slashPc != null) && pcs.includes(spec.slashPc mod 12)
chordToneSlash(pcs, slashPc) == slashPc # NoVal /\ \E j \in 1..3 : pcs[j] = slashPc % 12

\* if (spec.slashPc != null && !chordToneSlash) ch = applySlashBass(ch, ...)
openExtraBass(ch, spec, prevBass, lo, hi, bassWeight) ==
  IF spec.slashPc # NoVal /\ ~chordToneSlash(triadPCs(pcOf(spec.rootMidi), spec.qual), spec.slashPc)
  THEN applySlashBass(ch, spec.slashPc, targetBassOf(lo, hi), lo, hi, prevBass, bassWeight)
  ELSE ch

\* body of the map callback of the open branch of generateSequence
openStep(spec, prevBass, lo, hi, bassWeight) ==
  enforceTriadSpacingSafe(
    openExtraBass(voiceOpenWithSlash(pcOf(spec.rootMidi), spec.qual, spec.slashPc,
                                     lo, hi, prevBass),
                  spec, prevBass, lo, hi, bassWeight),
    lo, hi, MinSepDefault, MaxSpreadDefault)

\* body of the map callback of the close branch of generateSequence
closeStep(spec, prevBass, lo, hi, bassWeight) ==
  enforceTriadSpacingSafe(
    applySlashBass(fitChordToRange(voiceClose(spec.rootMidi, spec.qual), lo, hi),
                   spec.slashPc, targetBassOf(lo, hi), lo, hi, prevBass, bassWeight),
    lo, hi, MinSepDefault, MaxSpreadDefault)

\* chordSpecs.map(spec => ...) threading prevBass (open and close branches)
RECURSIVE mapWithPrevBass(_, _, _, _, _, _)

\* prevBass = ch.length ? ch[0] : prevBass; return ch;
mapPush(ch, rest, mode, prevBass, lo, hi, bassWeight) ==
  <<ch>> \o mapWithPrevBass(rest, mode, IF Len(ch) > 0 THEN ch[1] ELSE prevBass,
                            lo, hi, bassWeight)

mapWithPrevBass(chordSpecs, mode, prevBass, lo, hi, bassWeight) ==
  IF chordSpecs = <<>> THEN <<>>
  ELSE mapPush(IF mode = "open"
               THEN openStep(Head(chordSpecs), prevBass, lo, hi, bassWeight)
               ELSE closeStep(Head(chordSpecs), prevBass, lo, hi, bassWeight),
               Tail(chordSpecs), mode, prevBass, lo, hi, bassWeight)

voiceAll(chordSpecs, voicingMode, lo, hi, bassWeight) ==
  IF voicingMode = "voicelead"
  THEN voiceLeadSequenceSmart(chordSpecs, <<>>, lo, hi, bassWeight)
  ELSE mapWithPrevBass(chordSpecs, voicingMode, NoVal, lo, hi, bassWeight)

\* ---------------------------------------------------------------------------
\* Text: a text is a sequence of one-character strings
\* ---------------------------------------------------------------------------

NoteLetters == {"A", "B", "C", "D", "E", "F", "G", "a", "b", "c", "d", "e", "f", "g"}

Accidentals == {"#", "b"}

Digits == {"0", "1", "2", "3", "4", "5", "6", "7", "8", "9"}

Whitespace == {" "}

toUpperCase(c) ==
  CASE c = "a" -> "A" [] c = "b" -> "B" [] c = "c" -> "C" [] c = "d" -> "D"
    [] c = "e" -> "E" [] c = "f" -> "F" [] c = "g" -> "G" [] c = "m" -> "M"
    [] c = "j" -> "J" [] OTHER -> c

\* the name table: a note name is <<letter>> or <<letter, accidental>>
NOTE_TO_SEMITONE ==
  [name \in { <<"C">>, <<"C", "#">>, <<"D", "b">>, <<"D">>, <<"D", "#">>, <<"E", "b">>,
              <<"E">>, <<"F", "b">>, <<"E", "#">>, <<"F">>, <<"F", "#">>, <<"G", "b">>,
              <<"G">>, <<"G", "#">>, <<"A", "b">>, <<"A">>, <<"A", "#">>, <<"B", "b">>,
              <<"B">>, <<"C", "b">>, <<"B", "#">> } |->
     CASE name = <<"C">> -> 0 [] name = <<"C", "#">> -> 1 [] name = <<"D", "b">> -> 1
       [] name = <<"D">> -> 2 [] name = <<"D", "#">> -> 3 [] name = <<"E", "b">> -> 3
       [] name = <<"E">> -> 4 [] name = <<"F", "b">> -> 4 [] name = <<"E", "#">> -> 5
       [] name = <<"F">> -> 5 [] name = <<"F", "#">> -> 6 [] name = <<"G", "b">> -> 6
       [] name = <<"G">> -> 7 [] name = <<"G", "#">> -> 8 [] name = <<"A", "b">> -> 8
       [] name = <<"A">> -> 9 [] name = <<"A", "#">> -> 10 [] name = <<"B", "b">> -> 10
       [] name = <<"B">> -> 11 [] name = <<"C", "b">> -> 11 [] name = <<"B", "#">> -> 0]

\* NOTE_TO_SEMITONE[name], NoVal when the name is not a key (undefined)
semitoneOf(name) == IF name \in DOMAIN NOTE_TO_SEMITONE THEN NOTE_TO_SEMITONE[name] ELSE NoVal

RECURSIVE trimStart(_)
trimStart(s) == IF s # <<>> /\ Head(s) \in Whitespace THEN trimStart(Tail(s)) ELSE s

RECURSIVE trimEnd(_)
trimEnd(s) ==
  IF s # <<>> /\ s[Len(s)] \in Whitespace THEN trimEnd(SubSeq(s, 1, Len(s) - 1)) ELSE s

trim(s) == trimEnd(trimStart(s))

\* s.split("/"): the parts between the separators, empty parts included
RECURSIVE splitOn(_, _, _, _)
splitOn(s, sep, cur, acc) ==
  IF s = <<>> THEN Append(acc, cur)
  ELSE IF Head(s) = sep THEN splitOn(Tail(s), sep, <<>>, Append(acc, cur))
  ELSE splitOn(Tail(s), sep, Append(cur, Head(s)), acc)

split(s, sep) == splitOn(s, sep, <<>>, <<>>)

\* /^([A-Ga-g])([#b]?)(m|maj)?$/ : the groups of the match, ok = FALSE when there is none
matchChordPart(s) ==
  IF s = <<>> \/ s[1] \notin NoteLetters
  THEN [ok |-> FALSE, letter |-> "", acc |-> <<>>, suffix |-> <<>>]
  ELSE LET hasAcc == Len(s) >= 2 /\ s[2] \in Accidentals
           rest == SubSeq(s, IF hasAcc THEN 3 ELSE 2, Len(s))
       IN IF rest \in {<<>>, <<"m">>, <<"m", "a", "j">>}
          THEN [ok |-> TRUE, letter |-> s[1],
                acc |-> IF hasAcc THEN <<s[2]>> ELSE <<>>, suffix |-> rest]
          ELSE [ok |-> FALSE, letter |-> "", acc |-> <<>>, suffix |-> <<>>]

\* /^([A-Ga-g])([#b]?)$/
matchNoteName(s) ==
  IF s # <<>> /\ s[1] \in NoteLetters
     /\ (Len(s) = 1 \/ (Len(s) = 2 /\ s[2] \in Accidentals))
  THEN [ok |-> TRUE, letter |-> s[1], acc |-> SubSeq(s, 2, Len(s))]
  ELSE [ok |-> FALSE, letter |-> "", acc |-> <<>>]

\* ---------------------------------------------------------------------------
\* Chord parsing
\* ---------------------------------------------------------------------------

\* results of parseChordToken: kind "ok" (a chord symbol), "null" (empty token) or "error" (throw)
ParseNull == [kind |-> "null", sym |-> <<>>, rootPc |-> NoVal, qual |-> "", slashPc |-> NoVal,
              error |-> ""]

ParseError(raw, what) ==
  [kind |-> "error", sym |-> raw, rootPc |-> NoVal, qual |-> "", slashPc |-> NoVal,
   error |-> what]

\* return { sym: raw, rootPc, qual, slashPc }
ParseOk(raw, rootPc, qual, slashPc) ==
  [kind |-> "ok", sym |-> raw, rootPc |-> rootPc, qual |-> qual, slashPc |-> slashPc,
   error |-> ""]

\* m[1].toUpperCase() + (m[2] || "")
noteName(letter, acc) == <<toUpperCase(letter)>> \o acc

\* const qual = (q === "m") ? "min" : "maj", q the suffix group of the match
qualOf_PrefixM(suffix) == IF suffix # <<>> /\ Head(suffix) = "m" THEN "min" ELSE "maj"
qualOf(suffix) == IF suffix = <<"m">> THEN "min" ELSE "maj"

\* parts[1] ? parts[1].trim() : null   (a missing or empty part is falsy; <<>> stands for both
\* null and "", which if (slashPart) treats alike)
slashPartOf(parts) == IF Len(parts) >= 2 /\ parts[2] # <<>> THEN trim(parts[2]) ELSE <<>>

\* parseChordToken once the slash pitch class has been looked up
parseSlashPc(raw, rootPc, qual, slashPc) ==
  IF slashPc = NoVal THEN ParseError(raw, "Invalid slash bass")
  ELSE ParseOk(raw, rootPc, qual, slashPc)

\* parseChordToken once the slash part has been matched
parseSlash(raw, rootPc, qual, sm) ==
  IF ~sm.ok THEN ParseError(raw, "Invalid slash bass")
  ELSE parseSlashPc(raw, rootPc, qual, semitoneOf(noteName(sm.letter, sm.acc)))

\* parseChordToken once the root pitch class has been looked up
parseRoot(raw, rootPc, qual, slashPart) ==
  IF rootPc = NoVal THEN ParseError(raw, "Invalid chord root")
  ELSE IF slashPart = <<>> THEN ParseOk(raw, rootPc, qual, NoVal)
  ELSE parseSlash(raw, rootPc, qual, matchNoteName(slashPart))

\* parseChordToken once the chord part has been matched
parseMatched(raw, m, slashPart) ==
  IF ~m.ok THEN ParseError(raw, "Invalid chord")
  ELSE parseRoot(raw, semitoneOf(noteName(m.letter, m.acc)), qualOf(m.suffix), slashPart)

\* parseChordToken once raw has been split on "/"
parseParts(raw, parts) == parseMatched(raw, matchChordPart(trim(parts[1])), slashPartOf(parts))

\* parseChordToken once the token has been trimmed
parseRaw(raw) == IF raw = <<>> THEN ParseNull ELSE parseParts(raw, split(raw, "/"))

parseChordToken(tok) == parseRaw(trim(tok))

\* .split(/[\s,]+/).map(s => s.trim()).filter(Boolean)
RECURSIVE tokenize(_, _, _)
tokenize(s, cur, acc) ==
  IF s = <<>> THEN (IF cur = <<>> THEN acc ELSE Append(acc, cur))
  ELSE IF Head(s) \in Whitespace \cup {","}
       THEN tokenize(Tail(s), <<>>, IF cur = <<>> THEN acc ELSE Append(acc, cur))
       ELSE tokenize(Tail(s), Append(cur, Head(s)), acc)

\* toks.map(parseChordToken).filter(Boolean), stopping at the first token that throws
RECURSIVE parseTokens(_, _)

\* one element of the map: throw, drop (null) or keep
parseKeep(r, rest, acc) ==
  IF r.kind = "error" THEN [ok |-> FALSE, symbols |-> <<>>, error |-> r.error]
  ELSE IF r.kind = "null" THEN parseTokens(rest, acc)
  ELSE parseTokens(rest, Append(acc, r))

parseTokens(toks, acc) ==
  IF toks = <<>> THEN [ok |-> TRUE, symbols |-> acc, error |-> ""]
  ELSE parseKeep(parseChordToken(Head(toks)), Tail(toks), acc)

\* parseProgression once the text has been split into tokens
parseToks(toks) ==
  IF Len(toks) = 0
  THEN [ok |-> FALSE, symbols |-> <<>>, error |-> "Please enter at least one chord"]
  ELSE parseTokens(toks, <<>>)

parseProgression(str) == parseToks(tokenize(trim(str), <<>>, <<>>))

\* ---------------------------------------------------------------------------
\* Register bounds
\* ---------------------------------------------------------------------------

\* NaN: Math.round, clamp and the comparisons of parseRangeBounds propagate it
NaN == -1000000

digitValue(c) ==
  CASE c = "0" -> 0 [] c = "1" -> 1 [] c = "2" -> 2 [] c = "3" -> 3 [] c = "4" -> 4
    [] c = "5" -> 5 [] c = "6" -> 6 [] c = "7" -> 7 [] c = "8" -> 8 [] c = "9" -> 9

AllDigits(s) == s # <<>> /\ \A i \in 1..Len(s) : s[i] \in Digits

\* /^-?\d+$/
IsIntegerText(s) == IF s # <<>> /\ s[1] = "-" THEN AllDigits(Tail(s)) ELSE AllDigits(s)

RECURSIVE digitsValue(_, _)
digitsValue(s, acc) == IF s = <<>> THEN acc ELSE digitsValue(Tail(s), 10 * acc + digitValue(Head(s)))

\* parseInt(s, 10) on a text that matches /^-?\d+$/
parseInt(s) == IF s[1] = "-" THEN -digitsValue(Tail(s), 0) ELSE digitsValue(s, 0)

\* if (semi == null) return NaN; return (oct + 1) * 12 + semi
noteMidi(semi, oct) == IF semi = NoVal THEN NaN ELSE (oct + 1) * 12 + semi

\* the groups of /^([A-Ga-g])([#b]?)(-?\d+)$/ once the accidental group is known
noteWithOctave(s, acc) ==
  IF ~IsIntegerText(SubSeq(s, Len(acc) + 2, Len(s))) THEN NaN
  ELSE noteMidi(semitoneOf(noteName(s[1], acc)), parseInt(SubSeq(s, Len(acc) + 2, Len(s))))

\* noteToMidi once the text has been trimmed
noteOfText(s) ==
  IF s = <<>> THEN NaN
  ELSE IF IsIntegerText(s) THEN parseInt(s)
  ELSE IF s[1] \notin NoteLetters THEN NaN
  ELSE noteWithOctave(s, IF Len(s) >= 2 /\ s[2] \in Accidentals THEN <<s[2]>> ELSE <<>>)

\* noteToMidi on a text (the typeof token === "number" branch is not used by the callers)
noteToMidi(token) == noteOfText(trim(token))

\* clamp(Math.round(v), 0, 127) with NaN propagating through Math.min / Math.max
clampBound(v) == IF v = NaN THEN NaN ELSE clamp(v, 0, 127)

\* the two checks of parseRangeBounds on the resolved bounds
checkBounds_Strict(lo, hi) ==
  IF lo = NaN \/ hi = NaN
  THEN [ok |-> FALSE, lo |-> NaN, hi |-> NaN, error |-> "Register bounds invalid"]
  ELSE IF lo > hi
  THEN [ok |-> FALSE, lo |-> lo, hi |-> hi, error |-> "Low must be less than High"]
  ELSE [ok |-> TRUE, lo |-> lo, hi |-> hi, error |-> ""]
checkBounds(lo, hi) ==
  IF lo = NaN \/ hi = NaN
  THEN [ok |-> FALSE, lo |-> NaN, hi |-> NaN, error |-> "Register bounds invalid"]
  ELSE IF lo >= hi
  THEN [ok |-> FALSE, lo |-> lo, hi |-> hi, error |-> "Low must be less than High"]
  ELSE [ok |-> TRUE, lo |-> lo, hi |-> hi, error |-> ""]

parseRangeBounds(loStr, hiStr) ==
  checkBounds(clampBound(noteToMidi(loStr)), clampBound(noteToMidi(hiStr)))

\* ---------------------------------------------------------------------------
\* Triads containing a note
\* ---------------------------------------------------------------------------

SEMI_TO_NAME ==
  << <<"C">>, <<"C", "#">>, <<"D">>, <<"D", "#">>, <<"E">>, <<"F">>, <<"F", "#">>, <<"G">>,
     <<"G", "#">>, <<"A">>, <<"A", "#">>, <<"B">> >>

\* ((x % 12) + 12) % 12
mod12(x) == ((x % 12) + 12) % 12

\* flatMap[sharpName] || sharpName
flatName(sharpName) ==
  CASE sharpName = <<"C", "#">> -> <<"D", "b">>
    [] sharpName = <<"D", "#">> -> <<"E", "b">>
    [] sharpName = <<"F", "#">> -> <<"G", "b">>
    [] sharpName = <<"G", "#">> -> <<"A", "b">>
    [] sharpName = <<"A", "#">> -> <<"B", "b">>
    [] OTHER -> sharpName

pcToPrettyName(pc) == flatName(SEMI_TO_NAME[mod12(pc) + 1])

\* root = pc, pc - 4 (pc is the 3rd), pc - 7 (pc is the 5th)
majRootsOf(pc) == <<mod12(pc), mod12(pc - 4), mod12(pc - 7)>>

\* (the minor third is taken for a major third)
minRootsOf_MajorThird(pc) == <<mod12(pc), mod12(pc - 4), mod12(pc - 7)>>

\* root = pc, pc - 3 (pc is the b3), pc - 7 (pc is the 5th)
minRootsOf(pc) == <<mod12(pc), mod12(pc - 3), mod12(pc - 7)>>

\* the place of a character in alphabetical order, upper and lower case alike
letterRank(c) ==
  CASE c \in {"A", "a"} -> 1 [] c \in {"B", "b"} -> 2 [] c \in {"C", "c"} -> 3
    [] c \in {"D", "d"} -> 4 [] c \in {"E", "e"} -> 5 [] c \in {"F", "f"} -> 6
    [] c \in {"G", "g"} -> 7 [] c \in {"M", "m"} -> 13 [] OTHER -> 0

\* a.localeCompare(b) < 0 for chord names: letter by letter, a proper prefix first
RECURSIVE nameBefore(_, _)
nameBefore(a, b) ==
  IF b = <<>> THEN FALSE
  ELSE IF a = <<>> THEN TRUE
  ELSE IF letterRank(Head(a)) # letterRank(Head(b)) THEN letterRank(Head(a)) < letterRank(Head(b))
  ELSE nameBefore(Tail(a), Tail(b))

RECURSIVE insertName(_, _)
insertName(sorted, name) ==
  IF sorted = <<>> THEN <<name>>
  ELSE IF nameBefore(name, Head(sorted)) THEN <<name>> \o sorted
  ELSE <<Head(sorted)>> \o insertName(Tail(sorted), name)

\* .sort((a,b) => a.localeCompare(b))
RECURSIVE sortNames(_)
sortNames(names) ==
  IF names = <<>> THEN <<>>
  ELSE insertName(sortNames(SubSeq(names, 1, Len(names) - 1)), names[Len(names)])

\* .map(r => `${pcToPrettyName(r)}${suf}`)
RECURSIVE rootNames(_, _)
rootNames(roots, suf) ==
  IF roots = <<>> THEN <<>>
  ELSE <<pcToPrettyName(Head(roots)) \o suf>> \o rootNames(Tail(roots), suf)

\* uniq(roots).map(...).sort(...)
toNames(roots, suf) == sortNames(rootNames(uniqChords(roots, <<>>), suf))

triadsContainingPC(pc) ==
  [major |-> toNames(majRootsOf(pc), <<>>), minor |-> toNames(minRootsOf(pc), <<"m">>)]

\* parsePitchClassOnly once the text is trimmed: null for no text, a pitch class, or an error
pitchClassOfText(s) ==
  IF s = <<>> THEN [kind |-> "null", pc |-> NoVal, error |-> ""]
  ELSE IF ~matchNoteName(s).ok
  THEN [kind |-> "error", pc |-> NoVal, error |-> "Enter a pitch class"]
  ELSE IF semitoneOf(noteName(matchNoteName(s).letter, matchNoteName(s).acc)) = NoVal
  THEN [kind |-> "error", pc |-> NoVal, error |-> "Unknown note"]
  ELSE [kind |-> "pc", pc |-> semitoneOf(noteName(matchNoteName(s).letter, matchNoteName(s).acc)),
        error |-> ""]

parsePitchClassOnly(tok) == pitchClassOfText(trim(tok))

\* what updateTriadQueryUI puts into noteQueryOut, p being what parsePitchClassOnly did
queryOut(p) ==
  CASE p.kind = "null" ->
         [kind |-> "hint", pc |-> NoVal, head |-> <<>>, major |-> <<>>, minor |-> <<>>,
          error |-> ""]
    [] p.kind = "error" ->
         [kind |-> "error", pc |-> NoVal, head |-> <<>>, major |-> <<>>, minor |-> <<>>,
          error |-> p.error]
    [] OTHER ->
         [kind |-> "lists", pc |-> p.pc, head |-> pcToPrettyName(p.pc),
          major |-> triadsContainingPC(p.pc).major, minor |-> triadsContainingPC(p.pc).minor,
          error |-> ""]

updateTriadQueryUI(raw) == queryOut(parsePitchClassOnly(raw))

\* ---------------------------------------------------------------------------
\* MIDI export: bytes are numbers 0..255, beats are kept in twentieths of a beat
\* ---------------------------------------------------------------------------

\* v >>= 7 and buffer >>= 8 on a 32-bit signed value: the sign is kept
shiftRight(v, bits) == IF bits = 7 THEN v \div 128 ELSE v \div 256

\* (buffer <<= 8) | low on a 32-bit signed value: the top byte is lost, bit 31 is the sign
shiftLeft8Or(buffer, low) ==
  IF (buffer % 16777216) >= 8388608
  THEN (((buffer % 8388608) * 256 - 1073741824) - 1073741824) + low
  ELSE (buffer % 8388608) * 256 + low

\* while ((v >>= 7)) { buffer <<= 8; buffer |= ((v & 0x7F) | 0x80); }
RECURSIVE varBuffer(_, _)
varBuffer(v, buffer) ==
  IF shiftRight(v, 7) # 0
  THEN varBuffer(shiftRight(v, 7), shiftLeft8Or(buffer, (shiftRight(v, 7) % 128) + 128))
  ELSE buffer

\* while (true) { arr.push(buffer & 0xFF); if (buffer & 0x80) buffer >>= 8; else break; }
RECURSIVE varBytes(_)
varBytes(buffer) ==
  IF (buffer % 256) >= 128
  THEN <<buffer % 256>> \o varBytes(shiftRight(buffer, 8))
  ELSE <<buffer % 256>>

\* the bytes pushVar appends for value (value >>> 0 is value itself for 0 <= value < 2^31)
pushVar(value) == varBytes(varBuffer(value, value % 128))

\* the bytes pushU16 appends
pushU16(n) == <<(n \div 256) % 256, n % 256>>

\* the bytes pushU32 appends
pushU32(n) == <<(n \div 16777216) % 256, (n \div 65536) % 256, (n \div 256) % 256, n % 256>>

TicksPerBeat == 480

\* Math.max(1, Math.round(ticksPerBeat * beats)), beats in twentieths (480 / 20 = 24, exact)
beatToTicks(beats20) == Max2(1, (TicksPerBeat \div 20) * beats20)

\* Math.round(a / b) for positive a, b
roundDiv(a, b) == (2 * a + b) \div (2 * b)

\* pushStr(header, "MThd"); pushU32(header, 6); pushU16(header, 0); pushU16(header, 1);
\* pushU16(header, ticksPerBeat)
midiHeader == <<77, 84, 104, 100>> \o pushU32(6) \o pushU16(0) \o pushU16(1) \o pushU16(TicksPerBeat)

\* the tempo meta-event: mpqn = Math.round(60000000 / bpm)
tempoEvent(bpm) ==
  pushVar(0) \o <<255, 81, 3>>
  \o <<(roundDiv(60000000, bpm) \div 65536) % 256, (roundDiv(60000000, bpm) \div 256) % 256,
       roundDiv(60000000, bpm) % 256>>

\* the 4/4 time signature and the program change on channel 0, program 0
trackStart(bpm) ==
  tempoEvent(bpm) \o pushVar(0) \o <<255, 88, 4, 4, 2, 24, 8>> \o pushVar(0) \o <<192, 0>>

\* Array.from(new Set(chord.map(n => clamp(n, 0, 127)))).sort((a,b)=>a-b)
notesOf(chord) == sortAsc(uniqChords(MapClamp(chord), <<>>))

\* Math.round(75 / Math.sqrt(n)): the k with k - 1/2 <= 75 / sqrt(n) < k + 1/2
roundedVelocity(n) ==
  CHOOSE k \in 1..127 : (2 * k - 1) * (2 * k - 1) * n <= 22500 /\ 22500 < (2 * k + 1) * (2 * k + 1) * n

\* let v = clamp(round(baseVelocity / sqrt(max(1, n))), minVelocity, 127);
\* if (n === 1) v = Math.min(v, singleNoteCap)
velocityOf(n) ==
  IF n = 1 THEN Min2(clamp(roundedVelocity(1), 30, 127), 52)
  ELSE clamp(roundedVelocity(Max2(1, n)), 30, 127)

\* for (i ...) { pushVar(track, 0); track.push(0x90 | channel, notes[i], v); }
RECURSIVE blockOns(_, _)
blockOns(notes, v) ==
  IF notes = <<>> THEN <<>>
  ELSE pushVar(0) \o <<144, Head(notes), v>> \o blockOns(Tail(notes), v)

\* for (i ...) { pushVar(track, i === 0 ? chordTicks : 0); track.push(0x90 | channel, notes[i], 0); }
RECURSIVE blockOffs(_, _)

\* (the duration is put before every note-off, not only the first)
RECURSIVE blockOffs_EveryDelta(_, _)
blockOffs_EveryDelta(notes, delta) ==
  IF notes = <<>> THEN <<>>
  ELSE pushVar(delta) \o <<144, Head(notes), 0>> \o blockOffs_EveryDelta(Tail(notes), delta)

blockOffs(notes, delta) ==
  IF notes = <<>> THEN <<>>
  ELSE pushVar(delta) \o <<144, Head(notes), 0>> \o blockOffs(Tail(notes), 0)

\* one chord of the block style, notes being its de-duplicated sorted pitches
blockChord(notes, chordTicks) ==
  IF notes = <<>> THEN <<>>
  ELSE blockOns(notes, velocityOf(Len(notes))) \o blockOffs(notes, chordTicks)

RECURSIVE blockTrack(_, _)
blockTrack(events, chordTicks) ==
  IF events = <<>> THEN pushVar(0)
  ELSE blockChord(notesOf(Head(events)), chordTicks) \o blockTrack(Tail(events), chordTicks)

\* for (i ...) { pushVar(track, i === 0 ? carryDelta : gapTicks); note on; pushVar(track,
\* noteTicks); note on with velocity 0 }
RECURSIVE arpNotes(_, _, _, _, _)
arpNotes(notes, v, delta, gapTicks, noteTicks) ==
  IF notes = <<>> THEN <<>>
  ELSE pushVar(delta) \o <<144, Head(notes), v>> \o pushVar(noteTicks) \o <<144, Head(notes), 0>>
       \o arpNotes(Tail(notes), v, gapTicks, gapTicks, noteTicks)

RECURSIVE arpTrack(_, _, _, _, _)

\* one chord of the arpUp style; carryDelta = restTicks after a chord with notes
arpChord(notes, rest, carryDelta, stepTicks, restTicks, noteTicks) ==
  IF notes = <<>> THEN arpTrack(rest, carryDelta, stepTicks, restTicks, noteTicks)
  ELSE arpNotes(notes, velocityOf(Len(notes)), carryDelta, Max2(0, stepTicks - noteTicks), noteTicks)
       \o arpTrack(rest, restTicks, stepTicks, restTicks, noteTicks)

arpTrack(events, carryDelta, stepTicks, restTicks, noteTicks) ==
  IF events = <<>> THEN pushVar(carryDelta)
  ELSE arpChord(notesOf(Head(events)), Tail(events), carryDelta, stepTicks, restTicks, noteTicks)

\* noteTicks = Math.max(1, Math.round(stepTicks * gate)), gate = 0.85
gateTicks(stepTicks) == Max2(1, roundDiv(stepTicks * 85, 100))

\* the track: tempo, time signature, program change, the chords, end of track
midiTrack(events, opts) ==
  trackStart(opts.bpm)
  \o (IF opts.style = "arpUp"
      THEN arpTrack(events, 0, beatToTicks(opts.arpStepBeats), beatToTicks(opts.restBeats),
                    gateTicks(beatToTicks(opts.arpStepBeats)))
      ELSE blockTrack(events, beatToTicks(opts.chordDurationBeats)))
  \o <<255, 47, 0>>

\* pushStr(trackChunk, "MTrk"); pushU32(trackChunk, track.length); trackChunk.push(...track)
trackChunk(track) == <<77, 84, 114, 107>> \o pushU32(Len(track)) \o track

buildMidiFile(events, opts) == midiHeader \o trackChunk(midiTrack(events, opts))

\* ---------------------------------------------------------------------------
\* State
\* ---------------------------------------------------------------------------

VARIABLES
  \* the page: the input fields, the module-level results and the status area
  progIn,       \* text of the progression field
  voicingSel,   \* value of the voicing select
  rangeLo,      \* text of the low register bound
  rangeHi,      \* text of the high register bound
  weightIn,     \* value of the bassWeight slider, in tenths
  seqSymbols,   \* let seqSymbols = []
  seqChords,    \* let seqChords = []
  statusOut,    \* what the status area shows: the summary of a run or "Error:" and a message
  genProg,      \* the progression text read by the most recent generateSequence
  genTrace,     \* the calls the most recent generateSequence made, in order
  \* the voicing loop of generateSequence, one chord per step
  curMode,      \* voicingMode
  curLo,        \* lo of parseRangeBounds
  curHi,        \* hi of parseRangeBounds
  curWeight,    \* bassWeight, in tenths
  curSpec,      \* the chord spec voiced last
  curChord,     \* the chord emitted last (<<>> before the first): prev / prevBass of the next
  \* one call of parseChordToken
  tokText,      \* the token
  tokResult,    \* what the call returned or threw
  \* fitChordToRange applied to its own result
  fitX,         \* the pitch list
  fitLo,
  fitHi,
  fitOnce,      \* fitChordToRange(x, lo, hi)
  fitTwice,     \* fitChordToRange(fitChordToRange(x, lo, hi), lo, hi)
  fitPc,
  \* enforceTriadSpacingSafe, loop pass by loop pass
  rpIn,         \* the argument ch
  rpX,          \* the local x
  rpLo,
  rpHi,
  rpPc,         \* position: "start", "separate", "tighten", "bass", "last", "done"
  rpGuard,      \* guard of the min-separation loop
  rpPass,       \* bodies of the tighten loop entered
  rpSafety,     \* bodies of the last-resort loop entered
  \* one octave-shift loop, pass by pass
  olKind,       \* which loop condition
  olStart,      \* the pitch before the loop
  olN,          \* the pitch being shifted
  olLim,        \* the limit it is compared with
  olPrev,       \* x[i-1], for the pull-down loop of fitChordToRange
  olLo,         \* lo, for the pull-down loop of fitChordToRange
  olGuard,      \* guard
  olPc,         \* "loop", "done"
  \* the triad finder
  noteQueryIn,  \* text of the note field
  noteQueryOut, \* what the result area shows
  \* one call of buildMidiFile
  mdEvents,     \* the chords passed as events
  mdOpts,       \* opts: bpm, style, chordDurationBeats, arpStepBeats, restBeats
  mdFile,       \* the bytes returned
  mdPc,         \* "ready", "built"
  \* the download button
  dlClicks,     \* clicks so far
  dlOut,        \* what the last click did: the prompt, or the bytes handed to downloadBytes
  \* one call of pushVar, loop pass by loop pass
  pvValue,      \* the argument value
  pvV,          \* the local v
  pvBuffer,     \* the local buffer
  pvOut,        \* the bytes pushed so far
  pvPc          \* "start", "shift", "out", "done"

uiVars == <<progIn, voicingSel, rangeLo, rangeHi, weightIn, seqSymbols, seqChords, statusOut,
            genProg, genTrace>>

voVars == <<curMode, curLo, curHi, curWeight, curSpec, curChord>>

tokVars == <<tokText, tokResult>>

fitVars == <<fitX, fitLo, fitHi, fitOnce, fitTwice, fitPc>>

rpVars == <<rpIn, rpX, rpLo, rpHi, rpPc, rpGuard, rpPass, rpSafety>>

olVars == <<olKind, olStart, olN, olLim, olPrev, olLo, olGuard, olPc>>

nqVars == <<noteQueryIn, noteQueryOut>>

\* the variables of the triad finder and of the MIDI export
mdVars == <<mdEvents, mdOpts, mdFile, mdPc>>

pvVars == <<pvValue, pvV, pvBuffer, pvOut, pvPc>>

dlVars == <<dlClicks, dlOut>>

xVars == <<nqVars, mdVars, pvVars, dlVars>>

vars == <<uiVars, voVars, tokVars, fitVars, rpVars, olVars, xVars>>

NoSpec == [rootMidi |-> NoVal, qual |-> "", slashPc |-> NoVal]

NoStatus == [kind |-> "none", error |-> "", chords |-> 0, voicing |-> "", weight |-> 0,
             lo |-> NoVal, hi |-> NoVal]

NotParsed == [kind |-> "none", sym |-> <<>>, rootPc |-> NoVal, qual |-> "", slashPc |-> NoVal,
              error |-> ""]

\* the parts of the state a specification does not use
UiIdle ==
  /\ progIn = <<>> /\ voicingSel = "" /\ rangeLo = <<>> /\ rangeHi = <<>> /\ weightIn = 0
  /\ seqSymbols = <<>> /\ seqChords = <<>> /\ statusOut = NoStatus
  /\ genProg = <<>> /\ genTrace = <<>>

VoicingIdle ==
  /\ curMode = "" /\ curLo = 0 /\ curHi = 0 /\ curWeight = 0
  /\ curSpec = NoSpec /\ curChord = <<>>

TokIdle == tokText = <<>> /\ tokResult = NotParsed

FitIdle ==
  /\ fitX = <<>> /\ fitLo = 0 /\ fitHi = 0 /\ fitOnce = <<>> /\ fitTwice = <<>> /\ fitPc = "idle"

RepairIdle ==
  /\ rpIn = <<>> /\ rpX = <<>> /\ rpLo = 0 /\ rpHi = 0 /\ rpPc = "idle"
  /\ rpGuard = 0 /\ rpPass = 0 /\ rpSafety = 0

OctaveIdle ==
  /\ olKind = "" /\ olStart = 0 /\ olN = 0 /\ olLim = 0 /\ olPrev = 0 /\ olLo = 0
  /\ olGuard = 0 /\ olPc = "idle"

NoQuery ==
  [kind |-> "none", pc |-> NoVal, head |-> <<>>, major |-> <<>>, minor |-> <<>>, error |-> ""]

QueryIdle == noteQueryIn = <<>> /\ noteQueryOut = NoQuery

NoOpts == [bpm |-> 0, style |-> "", chordDurationBeats |-> 0, arpStepBeats |-> 0, restBeats |-> 0]

BuildIdle == mdEvents = <<>> /\ mdOpts = NoOpts /\ mdFile = <<>> /\ mdPc = "idle"

VarIdle == pvValue = 0 /\ pvV = 0 /\ pvBuffer = 0 /\ pvOut = <<>> /\ pvPc = "idle"

NoDownload == [kind |-> "none", alert |-> "", style |-> "", bytes |-> <<>>]

DownloadIdle == dlClicks = 0 /\ dlOut = NoDownload

ExtraIdle == QueryIdle /\ BuildIdle /\ VarIdle /\ DownloadIdle

\* ---------------------------------------------------------------------------
\* The voicing loop of generateSequence, chord by chord
\* ---------------------------------------------------------------------------

VoicingModes == {"close", "open", "voicelead"}

\* register bounds as parseRangeBounds returns them: the default C2-C6 (48 wide),
\* 28 wide, 27 wide, and 21 wide at the top of the MIDI range
VoicingBounds == { <<36, 84>>, <<48, 76>>, <<36, 63>>, <<105, 126>> }

\* bassWeight after clamp(.., 0, 3), in tenths: 0 and the default 1.2
VoicingWeights == {0, 12}

\* parsed chord symbols [rootPc, qual, slashPc]:
\* C Am, C/E F#/A# (third in the bass), G/D E/B (fifth in the bass),
\* C/D Eb/Ab (slash note not in the triad)
VoicingSymbols ==
  { [rootPc |-> 0, qual |-> "maj", slashPc |-> NoVal],
    [rootPc |-> 9, qual |-> "min", slashPc |-> NoVal],
    [rootPc |-> 0, qual |-> "maj", slashPc |-> 4],
    [rootPc |-> 6, qual |-> "maj", slashPc |-> 10],
    [rootPc |-> 7, qual |-> "maj", slashPc |-> 2],
    [rootPc |-> 4, qual |-> "maj", slashPc |-> 11],
    [rootPc |-> 0, qual |-> "maj", slashPc |-> 2],
    [rootPc |-> 3, qual |-> "maj", slashPc |-> 8] }

\* seqSymbols.map(obj => ({ rootMidi: midiNear(obj.rootPc, targetRoot), ... }))
chordSpecOf(obj) ==
  [rootMidi |-> midiNear(obj.rootPc, 60), qual |-> obj.qual, slashPc |-> obj.slashPc]

prevBassOf(chord) == IF Len(chord) > 0 THEN chord[1] ELSE NoVal

VoicingInit ==
  /\ curMode \in VoicingModes
  /\ \E b \in VoicingBounds : curLo = b[1] /\ curHi = b[2]
  /\ curWeight \in VoicingWeights
  /\ curSpec = NoSpec
  /\ curChord = <<>>
  /\ UiIdle /\ TokIdle /\ FitIdle /\ RepairIdle /\ OctaveIdle /\ ExtraIdle

\* one iteration of the loop of voiceLeadSequenceSmart
VoiceLeadNext(obj) ==
  /\ curMode = "voicelead"
  /\ curSpec' = chordSpecOf(obj)
  /\ curChord' = voiceLeadStep(chordSpecOf(obj), curChord, curLo, curHi, curWeight)
  /\ UNCHANGED <<xVars, curMode, curLo, curHi, curWeight, uiVars, tokVars, fitVars, rpVars, olVars>>

\* one call of the map callback of the open branch
OpenNext(obj) ==
  /\ curMode = "open"
  /\ curSpec' = chordSpecOf(obj)
  /\ curChord' = openStep(chordSpecOf(obj), prevBassOf(curChord), curLo, curHi, curWeight)
  /\ UNCHANGED <<xVars, curMode, curLo, curHi, curWeight, uiVars, tokVars, fitVars, rpVars, olVars>>

\* one call of the map callback of the close branch
CloseNext(obj) ==
  /\ curMode = "close"
  /\ curSpec' = chordSpecOf(obj)
  /\ curChord' = closeStep(chordSpecOf(obj), prevBassOf(curChord), curLo, curHi, curWeight)
  /\ UNCHANGED <<xVars, curMode, curLo, curHi, curWeight, uiVars, tokVars, fitVars, rpVars, olVars>>

VoicingNext ==
  \/ \E obj \in VoicingSymbols : VoiceLeadNext(obj)
  \/ \E obj \in VoicingSymbols : OpenNext(obj)
  \/ \E obj \in VoicingSymbols : CloseNext(obj)

SpecVoicing == VoicingInit /\ [][VoicingNext]_vars

\* ---------------------------------------------------------------------------
\* parseChordToken on one token
\* ---------------------------------------------------------------------------

\* the characters tokens are drawn from: note letters in both cases ("a" and "b" are letters
\* too), a letter outside A-G, the accidentals, the characters of "m" and "maj", the slash
TokenAlphabet == {"A", "C", "E", "H", "#", "b", "m", "a", "j", "/"}

MaxTokLen == 4

TokenTexts == UNION { [1..n -> TokenAlphabet] : n \in 0..MaxTokLen }

ParseInit ==
  /\ tokText \in TokenTexts
  /\ tokResult = NotParsed
  /\ UiIdle /\ VoicingIdle /\ FitIdle /\ RepairIdle /\ OctaveIdle /\ ExtraIdle

\* the call parseChordToken(tok)
ParseToken ==
  /\ tokResult = NotParsed
  /\ tokResult' = parseChordToken(tokText)
  /\ UNCHANGED <<xVars, tokText, uiVars, voVars, fitVars, rpVars, olVars>>

ParseNext == ParseToken

SpecParse == ParseInit /\ [][ParseNext]_vars

\* ---------------------------------------------------------------------------
\* fitChordToRange applied twice
\* ---------------------------------------------------------------------------

FitPitches == {2, 15, 60, 103, 115}

\* 0..119, a 13-wide register, the default C2-C6, and a register one semitone wide
FitBounds == { <<0, 119>>, <<14, 27>>, <<36, 84>>, <<60, 61>> }

MaxFitLen == 3

FitInit ==
  /\ fitX \in UNION { [1..n -> FitPitches] : n \in 1..MaxFitLen }
  /\ \E b \in FitBounds : fitLo = b[1] /\ fitHi = b[2]
  /\ fitOnce = <<>>
  /\ fitTwice = <<>>
  /\ fitPc = "input"
  /\ UiIdle /\ VoicingIdle /\ TokIdle /\ RepairIdle /\ OctaveIdle /\ ExtraIdle

\* fitChordToRange(x, lo, hi)
FitFirst ==
  /\ fitPc = "input"
  /\ fitOnce' = fitChordToRange(fitX, fitLo, fitHi)
  /\ fitPc' = "once"
  /\ UNCHANGED <<xVars, fitX, fitLo, fitHi, fitTwice, uiVars, voVars, tokVars, rpVars, olVars>>

\* fitChordToRange of the result
FitSecond ==
  /\ fitPc = "once"
  /\ fitTwice' = fitChordToRange(fitOnce, fitLo, fitHi)
  /\ fitPc' = "twice"
  /\ UNCHANGED <<xVars, fitX, fitLo, fitHi, fitOnce, uiVars, voVars, tokVars, rpVars, olVars>>

FitNext == FitFirst \/ FitSecond

SpecFit == FitInit /\ [][FitNext]_vars

\* ---------------------------------------------------------------------------
\* The bounded loops, pass by pass
\* ---------------------------------------------------------------------------

\* chord specs whose first voice-led candidates reach enforceTriadSpacingSafe directly:
\* C and Am (no slash: applySlashBass returns the candidate), C/F and C/C# (slash note not
\* in the triad: the extra-bass branch of applySlashBass)
RepairSpecs ==
  { [rootMidi |-> 60, qual |-> "maj", slashPc |-> NoVal],
    [rootMidi |-> 57, qual |-> "min", slashPc |-> NoVal],
    [rootMidi |-> 60, qual |-> "maj", slashPc |-> 5],
    [rootMidi |-> 60, qual |-> "maj", slashPc |-> 1] }

\* the default C2-C6, C1-C7, 4..94, the whole MIDI range, and 21 wide at the top
RepairBounds == { <<36, 84>>, <<24, 96>>, <<4, 94>>, <<0, 127>>, <<105, 126>> }

\* the argument of the call of enforceTriadSpacingSafe that the first chord's candidate cand
\* reaches: the call in voiceLeadSequenceSmart without a slash, the call that ends the
\* extra-bass branch of applySlashBass with one
repairArg(cand, spec, lo, hi) ==
  IF spec.slashPc = NoVal THEN fitChordToRange(cand, lo, hi)
  ELSE fitChordToRange(slashExtraOut(sortAsc(fitChordToRange(cand, lo, hi)), spec.slashPc % 12,
                                     targetBassOf(lo, hi), lo, NoVal),
                       lo, hi)

RepairInit ==
  /\ \E spec \in RepairSpecs, b \in RepairBounds :
       /\ rpLo = b[1] /\ rpHi = b[2]
       /\ \E k \in 1..Len(candidatesForTriad(spec.rootMidi % 12, spec.qual, 60, b[1], b[2])) :
            rpIn = repairArg(candidatesForTriad(spec.rootMidi % 12, spec.qual, 60, b[1], b[2])[k],
                             spec, b[1], b[2])
  /\ rpX = <<>>
  /\ rpPc = "start"
  /\ rpGuard = 0 /\ rpPass = 0 /\ rpSafety = 0

\* if (!ch || ch.length < 2) return ch; let x = fitChordToRange(sortAsc(ch), lo, hi)
RepairStart ==
  /\ rpPc = "start"
  /\ IF Len(rpIn) < 2
     THEN rpX' = rpIn /\ rpPc' = "done"
     ELSE rpX' = fitChordToRange(sortAsc(rpIn), rpLo, rpHi) /\ rpPc' = "separate"
  /\ UNCHANGED <<xVars, rpIn, rpLo, rpHi, rpGuard, rpPass, rpSafety,
                 uiVars, voVars, tokVars, fitVars, olVars>>

\* (x[1] - x[0]) < minSep && guard++ < 24
separateGoesOn(x, minSep, guard) == (x[2] - x[1]) < minSep /\ guard < GuardMax

\* one pass of: while ((x[1] - x[0]) < minSep && guard++ < 24) x[1] += 12
SeparatePass ==
  /\ rpPc = "separate"
  /\ separateGoesOn(rpX, MinSepDefault, rpGuard)
  /\ rpX' = [rpX EXCEPT ![2] = @ + 12]
  /\ rpGuard' = rpGuard + 1
  /\ UNCHANGED <<xVars, rpIn, rpLo, rpHi, rpPc, rpPass, rpSafety,
                 uiVars, voVars, tokVars, fitVars, olVars>>

\* the loop is left: re-ascend the following voices, x = fitChordToRange(x, lo, hi)
SeparateExit ==
  /\ rpPc = "separate"
  /\ ~separateGoesOn(rpX, MinSepDefault, rpGuard)
  /\ rpX' = fitChordToRange(ReAscend(rpX, 3), rpLo, rpHi)
  /\ rpPc' = "tighten"
  /\ UNCHANGED <<xVars, rpIn, rpLo, rpHi, rpGuard, rpPass, rpSafety,
                 uiVars, voVars, tokVars, fitVars, olVars>>

\* pass < 8 and, after x = sortAsc(x), not (spread <= maxSpread)
tightenGoesOn(x, maxSpread, pass) == pass < PassMax /\ x[Len(x)] - x[1] > maxSpread

\* the rest of a tighten pass once the pull-down loop has run: re-ascend, fit,
\* if (!changed) break
TightenApply(t) ==
  /\ rpX' = fitChordToRange(ReAscend(t.x, 2), rpLo, rpHi)
  /\ rpPc' = IF t.changed THEN "tighten" ELSE "bass"

\* one pass of: for (let pass = 0; pass < 8; pass++) { ... }
TightenPass ==
  /\ rpPc = "tighten"
  /\ tightenGoesOn(sortAsc(rpX), MaxSpreadDefault, rpPass)
  /\ TightenApply(tightenDown(sortAsc(rpX), Len(rpX), rpLo, FALSE))
  /\ rpPass' = rpPass + 1
  /\ UNCHANGED <<xVars, rpIn, rpLo, rpHi, rpGuard, rpSafety,
                 uiVars, voVars, tokVars, fitVars, olVars>>

\* the loop is left by pass = 8 or by "if (spread <= maxSpread) break" after the sort
TightenBreak ==
  /\ rpPc = "tighten"
  /\ ~tightenGoesOn(sortAsc(rpX), MaxSpreadDefault, rpPass)
  /\ rpX' = IF rpPass < PassMax THEN sortAsc(rpX) ELSE rpX
  /\ rpPc' = "bass"
  /\ UNCHANGED <<xVars, rpIn, rpLo, rpHi, rpGuard, rpPass, rpSafety,
                 uiVars, voVars, tokVars, fitVars, olVars>>

\* x = enforceBassBelowC4Safe(x, lo, hi); x = sortAsc(x); let safety = 0
BassBelow ==
  /\ rpPc = "bass"
  /\ rpX' = sortAsc(enforceBassBelowC4Safe(rpX, rpLo, rpHi))
  /\ rpPc' = "last"
  /\ UNCHANGED <<xVars, rpIn, rpLo, rpHi, rpGuard, rpPass, rpSafety,
                 uiVars, voVars, tokVars, fitVars, olVars>>

\* one pass of the last-resort loop
LastResortPass ==
  /\ rpPc = "last"
  /\ lastResortGoesOn(rpX, MaxSpreadDefault, rpSafety)
  /\ rpX' = lastResortBody(rpX, rpLo, rpHi)
  /\ rpSafety' = rpSafety + 1
  /\ UNCHANGED <<xVars, rpIn, rpLo, rpHi, rpPc, rpGuard, rpPass,
                 uiVars, voVars, tokVars, fitVars, olVars>>

\* return sortAsc(x)
LastResortExit ==
  /\ rpPc = "last"
  /\ ~lastResortGoesOn(rpX, MaxSpreadDefault, rpSafety)
  /\ rpX' = sortAsc(rpX)
  /\ rpPc' = "done"
  /\ UNCHANGED <<xVars, rpIn, rpLo, rpHi, rpGuard, rpPass, rpSafety,
                 uiVars, voVars, tokVars, fitVars, olVars>>

\* the conditions of the octave-shift loops "while (cond && guard++ < 24) n += 12 / n -= 12":
\*   upBelow       n < lim          (fitChordToRange, enforceBassBelowC4Safe, applySlashBass,
\*                                   voiceOpenOrderedPCs; the whole-chord loops with n the minimum)
\*   upNotAbove    n <= lim         (voiceClose, fitChordToRange, the re-ascend loops, scoreTop,
\*                                   candidatesForTriad)
\*   downAbove     n > lim          (fitChordToRange, applySlashBass; the whole-chord loops with
\*                                   n the maximum)
\*   downNotBelow  n >= lim         (enforceBassBelowC4Safe, applySlashBass, voiceOpenOrderedPCs)
\*   separate      n - lim < 7      (enforceTriadSpacingSafe, voiceOpenOrderedPCs)
\*   pullDown      n > lim && (n - 12) > prev && (n - 12) >= lo     (fitChordToRange)
OctaveKinds == {"upBelow", "upNotAbove", "downAbove", "downNotBelow", "separate", "pullDown"}

octaveCond(kind, n, lim, prev, lo) ==
  CASE kind = "upBelow" -> n < lim
    [] kind = "upNotAbove" -> n <= lim
    [] kind = "downAbove" -> n > lim
    [] kind = "downNotBelow" -> n >= lim
    [] kind = "separate" -> (n - lim) < MinSepDefault
    [] kind = "pullDown" -> n > lim /\ (n - 12) > prev /\ (n - 12) >= lo

octaveShift(kind, n) ==
  IF kind \in {"upBelow", "upNotAbove", "separate"} THEN n + 12 ELSE n - 12

\* the same loop as the voicing functions run it, in one go
octaveLoop(kind, n, lim, prev, lo) ==
  CASE kind = "upBelow" -> UpWhileBelow(n, lim, 0)
    [] kind = "upNotAbove" -> UpWhileNotAbove(n, lim, 0)
    [] kind = "downAbove" -> DownWhileAbove(n, lim, 0)
    [] kind = "downNotBelow" -> DownWhileNotBelow(n, lim, 0)
    [] kind = "separate" -> SeparateSecond(n, lim, MinSepDefault, 0)
    [] kind = "pullDown" -> PullDownAbovePrev(n, prev, lo, lim, 0)

\* pitches a loop can start from (candidates start two octaves outside 0..127) and limits
OctavePitches == {-24, 0, 11, 47, 60, 72, 127, 151}

OctaveLimits == {0, 35, 59, 60, 126}

OctaveInit ==
  /\ olKind \in OctaveKinds
  /\ olStart \in OctavePitches
  /\ olN = olStart
  /\ olLim \in OctaveLimits
  /\ olPrev \in (IF olKind = "pullDown" THEN {0, 47} ELSE {0})
  /\ olLo \in (IF olKind = "pullDown" THEN {0, 36} ELSE {0})
  /\ olGuard = 0
  /\ olPc = "loop"

\* one pass of an octave-shift loop
OctavePass ==
  /\ olPc = "loop"
  /\ octaveCond(olKind, olN, olLim, olPrev, olLo) /\ olGuard < GuardMax
  /\ olN' = octaveShift(olKind, olN)
  /\ olGuard' = olGuard + 1
  /\ UNCHANGED <<xVars, olKind, olStart, olLim, olPrev, olLo, olPc,
                 uiVars, voVars, tokVars, fitVars, rpVars>>

\* the loop is left
OctaveExit ==
  /\ olPc = "loop"
  /\ ~(octaveCond(olKind, olN, olLim, olPrev, olLo) /\ olGuard < GuardMax)
  /\ olPc' = "done"
  /\ UNCHANGED <<xVars, olKind, olStart, olN, olLim, olPrev, olLo, olGuard,
                 uiVars, voVars, tokVars, fitVars, rpVars>>

LoopsInit ==
  /\ \/ RepairInit /\ OctaveIdle
     \/ OctaveInit /\ RepairIdle
  /\ UiIdle /\ VoicingIdle /\ TokIdle /\ FitIdle /\ ExtraIdle

LoopsNext ==
  \/ RepairStart
  \/ SeparatePass
  \/ SeparateExit
  \/ TightenPass
  \/ TightenBreak
  \/ BassBelow
  \/ LastResortPass
  \/ LastResortExit
  \/ OctavePass
  \/ OctaveExit

SpecLoops == LoopsInit /\ [][LoopsNext]_vars

\* ---------------------------------------------------------------------------
\* The page: generateSequence, safeGenerate and the handlers of setupUI
\* ---------------------------------------------------------------------------

\* what generateSequence did: threw = TRUE with the message, or the values it stored
GenThrow(message, trace, progStr) ==
  [threw |-> TRUE, error |-> message, symbols |-> <<>>, chords |-> <<>>,
   lo |-> NoVal, hi |-> NoVal, trace |-> trace, prog |-> progStr]

GenReturn(symbols, chords, lo, hi, progStr) ==
  [threw |-> FALSE, error |-> "", symbols |-> symbols, chords |-> chords,
   lo |-> lo, hi |-> hi,
   trace |-> <<"parseRangeBounds", "parseProgression", "voice", "updateOutputs">>,
   prog |-> progStr]

\* const chordSpecs = seqSymbols.map(obj => ...)
chordSpecsOf(symbols) == [i \in 1..Len(symbols) |-> chordSpecOf(symbols[i])]

\* generateSequence from "seqSymbols = parseProgression(progStr)" on
genParsed(progStr, voicingMode, bassWeight, lo, hi, p) ==
  IF ~p.ok THEN GenThrow(p.error, <<"parseRangeBounds", "parseProgression">>, progStr)
  ELSE GenReturn(p.symbols, voiceAll(chordSpecsOf(p.symbols), voicingMode, lo, hi, bassWeight),
                 lo, hi, progStr)

\* generateSequence once parseRangeBounds has returned or thrown
genBounds(progStr, voicingMode, bassWeight, b) ==
  IF ~b.ok THEN GenThrow(b.error, <<"parseRangeBounds">>, progStr)
  ELSE genParsed(progStr, voicingMode, bassWeight, b.lo, b.hi, parseProgression(progStr))

generateSequence(progStr, voicingMode, weight, loStr, hiStr) ==
  genBounds(progStr, voicingMode, clamp(weight, 0, 30), parseRangeBounds(loStr, hiStr))

\* the page after safeGenerate, g being what generateSequence did
\* (the catch block forgets to clear seqChords)
pageAfter_KeepsChords(g, oldSymbols, oldChords, voicingMode, weight) ==
  IF g.threw
  THEN [seqSymbols |-> <<>>, seqChords |-> oldChords,
        statusOut |-> [kind |-> "error", error |-> g.error, chords |-> 0, voicing |-> "",
                       weight |-> 0, lo |-> NoVal, hi |-> NoVal],
        genProg |-> g.prog, genTrace |-> g.trace]
  ELSE [seqSymbols |-> g.symbols, seqChords |-> g.chords,
        statusOut |-> [kind |-> "summary", error |-> "", chords |-> Len(g.chords),
                       voicing |-> voicingMode, weight |-> clamp(weight, 0, 30),
                       lo |-> g.lo, hi |-> g.hi],
        genProg |-> g.prog, genTrace |-> g.trace]

\* the page after safeGenerate, g being what generateSequence did:
\* try { generateSequence() } catch (e) { statusOut = "Error:\n" + e.message;
\* seqSymbols = []; seqChords = [] }
pageAfter(g, oldSymbols, oldChords, voicingMode, weight) ==
  IF g.threw
  THEN [seqSymbols |-> <<>>, seqChords |-> <<>>,
        statusOut |-> [kind |-> "error", error |-> g.error, chords |-> 0, voicing |-> "",
                       weight |-> 0, lo |-> NoVal, hi |-> NoVal],
        genProg |-> g.prog, genTrace |-> g.trace]
  ELSE [seqSymbols |-> g.symbols, seqChords |-> g.chords,
        statusOut |-> [kind |-> "summary", error |-> "", chords |-> Len(g.chords),
                       voicing |-> voicingMode, weight |-> clamp(weight, 0, 30),
                       lo |-> g.lo, hi |-> g.hi],
        genProg |-> g.prog, genTrace |-> g.trace]

safeGenerate(progStr, voicingMode, weight, loStr, hiStr, oldSymbols, oldChords) ==
  pageAfter(generateSequence(progStr, voicingMode, weight, loStr, hiStr),
            oldSymbols, oldChords, voicingMode, weight)

\* the results and the status area become those of the page p
Shows(p) ==
  /\ seqSymbols' = p.seqSymbols
  /\ seqChords' = p.seqChords
  /\ statusOut' = p.statusOut
  /\ genProg' = p.genProg
  /\ genTrace' = p.genTrace

\* current.replace(/[,\s]*$/, "")
RECURSIVE stripTrailing(_)
stripTrailing(s) ==
  IF s # <<>> /\ s[Len(s)] \in Whitespace \cup {","}
  THEN stripTrailing(SubSeq(s, 1, Len(s) - 1))
  ELSE s

\* the new value of progIn in appendChordToProgression, current being the trimmed old one
appended(current, sym) ==
  IF current = <<>> THEN sym ELSE stripTrailing(current) \o <<",", " ">> \o sym

\* "Am, F, G, C/E, G/D, C/E, F"
DefaultProgression ==
  <<"A", "m", ",", " ", "F", ",", " ", "G", ",", " ", "C", "/", "E", ",", " ",
    "G", "/", "D", ",", " ", "C", "/", "E", ",", " ", "F">>

\* texts typed into the progression field: the default, nothing, "C,", a bad chord body,
\* a bad slash note
ProgTexts == { DefaultProgression, <<>>, <<"C", ",">>, <<"X", "m">>, <<"A", "m", "/", "H">> }

\* texts of the low bound: C2, a number clamped to 127, a letter outside A-G
RangeLoTexts == { <<"C", "2">>, <<"2", "0", "0">>, <<"H", "2">> }

\* texts of the high bound: C6, C2, nothing
RangeHiTexts == { <<"C", "6">>, <<"C", "2">>, <<>> }

\* chips of the triad finder that are clicked
AppendSymbols == { <<"A", "m">> }

\* appendChordToProgression is followed up to this many chords in the field
MaxProgChords == 2

\* the state setupUI leaves: the defaults, and the initial safeGenerate()
Init ==
  /\ progIn = DefaultProgression
  /\ voicingSel = "open"
  /\ rangeLo = <<"C", "2">>
  /\ rangeHi = <<"C", "6">>
  /\ weightIn = 12
  /\ \E p \in { safeGenerate(DefaultProgression, "open", 12, <<"C", "2">>, <<"C", "6">>, <<>>, <<>>) } :
       /\ seqSymbols = p.seqSymbols
       /\ seqChords = p.seqChords
       /\ statusOut = p.statusOut
       /\ genProg = p.genProg
       /\ genTrace = p.genTrace
  /\ VoicingIdle /\ TokIdle /\ FitIdle /\ RepairIdle /\ OctaveIdle /\ ExtraIdle

\* typing into the progression field: no listener, nothing is generated
EditProg(t) ==
  /\ t # progIn
  /\ progIn' = t
  /\ UNCHANGED <<xVars, voicingSel, rangeLo, rangeHi, weightIn, seqSymbols, seqChords, statusOut,
                 genProg, genTrace, voVars, tokVars, fitVars, rpVars, olVars>>

\* genBtn click: safeGenerate()
ClickGenerate ==
  /\ Shows(safeGenerate(progIn, voicingSel, weightIn, rangeLo, rangeHi, seqSymbols, seqChords))
  /\ UNCHANGED <<xVars, progIn, voicingSel, rangeLo, rangeHi, weightIn,
                 voVars, tokVars, fitVars, rpVars, olVars>>

\* voicingSel change: safeGenerate()
ChangeVoicing(m) ==
  /\ m # voicingSel
  /\ voicingSel' = m
  /\ Shows(safeGenerate(progIn, m, weightIn, rangeLo, rangeHi, seqSymbols, seqChords))
  /\ UNCHANGED <<xVars, progIn, rangeLo, rangeHi, weightIn, voVars, tokVars, fitVars, rpVars, olVars>>

\* rangeLo change: safeGenerate()
ChangeRangeLo(t) ==
  /\ t # rangeLo
  /\ rangeLo' = t
  /\ Shows(safeGenerate(progIn, voicingSel, weightIn, t, rangeHi, seqSymbols, seqChords))
  /\ UNCHANGED <<xVars, progIn, voicingSel, rangeHi, weightIn, voVars, tokVars, fitVars, rpVars, olVars>>

\* rangeHi change: safeGenerate()
ChangeRangeHi(t) ==
  /\ t # rangeHi
  /\ rangeHi' = t
  /\ Shows(safeGenerate(progIn, voicingSel, weightIn, rangeLo, t, seqSymbols, seqChords))
  /\ UNCHANGED <<xVars, progIn, voicingSel, rangeLo, weightIn, voVars, tokVars, fitVars, rpVars, olVars>>

\* bassWeight input: syncBassLabel(); safeGenerate()
InputBassWeight(w) ==
  /\ w # weightIn
  /\ weightIn' = w
  /\ Shows(safeGenerate(progIn, voicingSel, w, rangeLo, rangeHi, seqSymbols, seqChords))
  /\ UNCHANGED <<xVars, progIn, voicingSel, rangeLo, rangeHi, voVars, tokVars, fitVars, rpVars, olVars>>

\* exampleBtn click: the default progression, "open", weight 1.2, safeGenerate()
ClickExample ==
  /\ progIn' = DefaultProgression
  /\ voicingSel' = "open"
  /\ weightIn' = 12
  /\ Shows(safeGenerate(DefaultProgression, "open", 12, rangeLo, rangeHi, seqSymbols, seqChords))
  /\ UNCHANGED <<xVars, rangeLo, rangeHi, voVars, tokVars, fitVars, rpVars, olVars>>

\* the field after appendChordToProgression(sym)
AppendShows(text) ==
  /\ progIn' = text
  /\ Shows(safeGenerate(text, voicingSel, weightIn, rangeLo, rangeHi, seqSymbols, seqChords))

\* a chip click: appendChordToProgression(sym)
AppendChord(sym) ==
  /\ Len(tokenize(trim(progIn), <<>>, <<>>)) < MaxProgChords
  /\ AppendShows(appended(trim(progIn), sym))
  /\ UNCHANGED <<xVars, voicingSel, rangeLo, rangeHi, weightIn, voVars, tokVars, fitVars, rpVars, olVars>>

Next ==
  \/ \E t \in ProgTexts : EditProg(t)
  \/ ClickGenerate
  \/ \E m \in VoicingModes : ChangeVoicing(m)
  \/ \E t \in RangeLoTexts : ChangeRangeLo(t)
  \/ \E t \in RangeHiTexts : ChangeRangeHi(t)
  \/ \E w \in VoicingWeights : InputBassWeight(w)
  \/ ClickExample
  \/ \E sym \in AppendSymbols : AppendChord(sym)

Spec == Init /\ [][Next]_vars

\* ---------------------------------------------------------------------------
\* The triad finder: the note field is typed into, each input event runs
\* updateTriadQueryUI
\* ---------------------------------------------------------------------------

\* characters typed into the note field
NoteAlphabet == {"C", "D", "E", "F", "G", "a", "b", "#", "H"}

\* the note field is followed up to this many characters
MaxNoteLen == 3

\* the parts of the state the triad finder does not use
TriadsRest ==
  /\ UiIdle /\ VoicingIdle /\ TokIdle /\ FitIdle /\ RepairIdle /\ OctaveIdle
  /\ BuildIdle /\ VarIdle /\ DownloadIdle

\* setupUI: updateTriadQueryUI() on the empty field
TriadsInit ==
  /\ noteQueryIn = <<>>
  /\ noteQueryOut = updateTriadQueryUI(<<>>)
  /\ TriadsRest

\* noteQueryIn input: a character is typed, updateTriadQueryUI()
TypeNote(c) ==
  /\ Len(noteQueryIn) < MaxNoteLen
  /\ noteQueryIn' = Append(noteQueryIn, c)
  /\ noteQueryOut' = updateTriadQueryUI(Append(noteQueryIn, c))
  /\ UNCHANGED <<uiVars, voVars, tokVars, fitVars, rpVars, olVars, mdVars, pvVars, dlVars>>

\* noteQueryIn input: the last character is deleted, updateTriadQueryUI()
DeleteNote ==
  /\ noteQueryIn # <<>>
  /\ noteQueryIn' = SubSeq(noteQueryIn, 1, Len(noteQueryIn) - 1)
  /\ noteQueryOut' = updateTriadQueryUI(SubSeq(noteQueryIn, 1, Len(noteQueryIn) - 1))
  /\ UNCHANGED <<uiVars, voVars, tokVars, fitVars, rpVars, olVars, mdVars, pvVars, dlVars>>

TriadsNext == (\E c \in NoteAlphabet : TypeNote(c)) \/ DeleteNote

SpecTriads == TriadsInit /\ [][TriadsNext]_vars

\* ---------------------------------------------------------------------------
\* MIDI export: buildMidiFile in one go, pushVar loop pass by loop pass
\* ---------------------------------------------------------------------------

\* chords that generateSequence stores: a triad, a chord with an extra bass, a chord whose
\* top voices were clamped onto one pitch
MidiChords == { <<60, 64, 67>>, <<36, 50, 52, 55>>, <<99, 106, 115, 115>> }

\* buildMidiFile is followed for up to this many chords
MaxMidiChords == 2

\* bpm values of the bpm field
MidiTempos == {60, 120}

\* chord durations of the duration field, in twentieths of a beat: 1 beat, 2 beats
MidiDurations == {20, 40}

\* the options the download handler passes: arpStepBeats 0.25 and restBeats 0.5 by default
midiOpts(bpm, dur, style) ==
  [bpm |-> bpm, style |-> style, chordDurationBeats |-> dur,
   arpStepBeats |-> clamp(5, 1, 160), restBeats |-> clamp(10, 0, 640)]

BuildInit ==
  /\ mdEvents \in UNION { [1..n -> MidiChords] : n \in 1..MaxMidiChords }
  /\ \E bpm \in MidiTempos, dur \in MidiDurations, style \in {"block", "arpUp"} :
       mdOpts = midiOpts(bpm, dur, style)
  /\ mdFile = <<>>
  /\ mdPc = "ready"

\* const midiBytes = buildMidiFile(seqChords, {...})
BuildMidi ==
  /\ mdPc = "ready"
  /\ mdFile' = buildMidiFile(mdEvents, mdOpts)
  /\ mdPc' = "built"
  /\ UNCHANGED <<mdEvents, mdOpts, uiVars, voVars, tokVars, fitVars, rpVars, olVars, nqVars,
                 pvVars, dlVars>>

\* chord durations typed into the duration field, in beats: the field is not clamped
\* (559240 beats are just under 2^28 ticks, 559241 beats just over)
VarDurations == {1, 2, 4, 300, 4369, 4370, 559240, 559241, 1000000, 4000000}

\* the delta-times buildMidiFile passes to pushVar in a block-style export
VarValues == {0} \cup { beatToTicks(20 * d) : d \in VarDurations }

\* pushes of one pushVar call that are followed
MaxVarBytes == 8

VarInit ==
  /\ pvValue \in VarValues
  /\ pvV = 0 /\ pvBuffer = 0 /\ pvOut = <<>>
  /\ pvPc = "start"

\* let v = value >>> 0; let buffer = v & 0x7F
VarStart ==
  /\ pvPc = "start"
  /\ pvV' = pvValue
  /\ pvBuffer' = pvValue % 128
  /\ pvPc' = "shift"
  /\ UNCHANGED <<pvValue, pvOut, uiVars, voVars, tokVars, fitVars, rpVars, olVars, nqVars, mdVars,
                 dlVars>>

\* one pass of: while ((v >>= 7)) { buffer <<= 8; buffer |= ((v & 0x7F) | 0x80); }
VarShiftPass ==
  /\ pvPc = "shift"
  /\ shiftRight(pvV, 7) # 0
  /\ pvV' = shiftRight(pvV, 7)
  /\ pvBuffer' = shiftLeft8Or(pvBuffer, (shiftRight(pvV, 7) % 128) + 128)
  /\ UNCHANGED <<pvValue, pvOut, pvPc, uiVars, voVars, tokVars, fitVars, rpVars, olVars, nqVars,
                 mdVars, dlVars>>

\* the condition (v >>= 7) is 0: the loop is left, v is 0
VarShiftExit ==
  /\ pvPc = "shift"
  /\ shiftRight(pvV, 7) = 0
  /\ pvV' = 0
  /\ pvPc' = "out"
  /\ UNCHANGED <<pvValue, pvBuffer, pvOut, uiVars, voVars, tokVars, fitVars, rpVars, olVars,
                 nqVars, mdVars, dlVars>>

\* one pass of the output loop with (buffer & 0x80) set: push, buffer >>= 8
VarOutPass ==
  /\ pvPc = "out"
  /\ (pvBuffer % 256) >= 128
  /\ Len(pvOut) < MaxVarBytes
  /\ pvOut' = Append(pvOut, pvBuffer % 256)
  /\ pvBuffer' = shiftRight(pvBuffer, 8)
  /\ UNCHANGED <<pvValue, pvV, pvPc, uiVars, voVars, tokVars, fitVars, rpVars, olVars, nqVars,
                 mdVars, dlVars>>

\* the last pass of the output loop: push, break
VarOutBreak ==
  /\ pvPc = "out"
  /\ (pvBuffer % 256) < 128
  /\ pvOut' = Append(pvOut, pvBuffer % 256)
  /\ pvPc' = "done"
  /\ UNCHANGED <<pvValue, pvV, pvBuffer, uiVars, voVars, tokVars, fitVars, rpVars, olVars,
                 nqVars, mdVars, dlVars>>

MidiInit ==
  /\ \/ BuildInit /\ VarIdle
     \/ VarInit /\ BuildIdle
  /\ UiIdle /\ VoicingIdle /\ TokIdle /\ FitIdle /\ RepairIdle /\ OctaveIdle /\ QueryIdle
  /\ DownloadIdle

MidiNext ==
  \/ BuildMidi
  \/ VarStart
  \/ VarShiftPass
  \/ VarShiftExit
  \/ VarOutPass
  \/ VarOutBreak

SpecMidi == MidiInit /\ [][MidiNext]_vars

\* ---------------------------------------------------------------------------
\* The page with its download button
\* ---------------------------------------------------------------------------

\* download clicks that are followed
MaxDownloads == 2

\* the values of midiStyleSel
MidiStyles == {"block", "arpUp"}

\* if (!seqChords.length) { alert(...); return; }: does the handler go on to build a file
\* (the handler builds a file whatever is stored)
downloadBuilds_Always(chords) == TRUE

\* if (!seqChords.length) { alert(...); return; }: does the handler go on to build a file
downloadBuilds(chords) == Len(chords) # 0

\* what a click on downloadBtn does with the stored chords: bpm 60 and 2 beats per chord
downloadOf(chords, style) ==
  IF ~downloadBuilds(chords)
  THEN [kind |-> "alert", alert |-> "Generate a sequence first.", style |-> "", bytes |-> <<>>]
  ELSE [kind |-> "file", alert |-> "", style |-> style,
        bytes |-> buildMidiFile(chords, midiOpts(60, 40, style))]

\* downloadBtn click
Download(style) ==
  /\ dlClicks < MaxDownloads
  /\ dlClicks' = dlClicks + 1
  /\ dlOut' = downloadOf(seqChords, style)
  /\ UNCHANGED <<uiVars, voVars, tokVars, fitVars, rpVars, olVars, nqVars, mdVars, pvVars>>

ExportNext ==
  \/ \E t \in ProgTexts : EditProg(t)
  \/ ClickGenerate
  \/ \E t \in RangeLoTexts : ChangeRangeLo(t)
  \/ ClickExample
  \/ \E style \in MidiStyles : Download(style)

SpecExport == Init /\ [][ExportNext]_vars

\* ---------------------------------------------------------------------------
\* The open branch of generateSequence at the default register, over all triads
\* ---------------------------------------------------------------------------

\* every triad without slash, with each of its tones as slash, and with the tone a whole
\* step above the root as slash (not a chord tone: an extra bass)
OpenSymbols ==
  { [rootPc |-> r, qual |-> q, slashPc |-> sl] :
      r \in 0..11, q \in {"maj", "min"}, sl \in {NoVal} }
  \cup
  { [rootPc |-> r, qual |-> q, slashPc |-> triadPCs(r, q)[j]] :
      r \in 0..11, q \in {"maj", "min"}, j \in 1..3 }
  \cup
  { [rootPc |-> r, qual |-> q, slashPc |-> (r + 2) % 12] :
      r \in 0..11, q \in {"maj", "min"} }

OpenInit ==
  /\ curMode = "open"
  /\ curLo = 36 /\ curHi = 84
  /\ curWeight = 12
  /\ curSpec = NoSpec
  /\ curChord = <<>>
  /\ UiIdle /\ TokIdle /\ FitIdle /\ RepairIdle /\ OctaveIdle /\ ExtraIdle

OpenModeNext == \E obj \in OpenSymbols : OpenNext(obj)

SpecOpen == OpenInit /\ [][OpenModeNext]_vars

\* ---------------------------------------------------------------------------
\* The voicelead branch of generateSequence alone
\* ---------------------------------------------------------------------------

VoiceLeadInit == VoicingInit /\ curMode = "voicelead"

VoiceLeadOnly == \E obj \in VoicingSymbols : VoiceLeadNext(obj)

SpecVoiceLead == VoiceLeadInit /\ [][VoiceLeadOnly]_vars

\* ---------------------------------------------------------------------------
\* Properties of the emitted chords
\* ---------------------------------------------------------------------------

Emitted == curChord # <<>>

InRange(chord, lo, hi) == \A i \in 1..Len(chord) : lo <= chord[i] /\ chord[i] <= hi

StrictlyAscending(chord) == \A i \in 1..(Len(chord) - 1) : chord[i] < chord[i + 1]

curTriad == triadPCs(curSpec.rootMidi % 12, curSpec.qual)

SlashIsChordTone ==
  curSpec.slashPc # NoVal /\ \E j \in 1..3 : curTriad[j] = curSpec.slashPc

SlashIsNotChordTone ==
  curSpec.slashPc # NoVal /\ \A j \in 1..3 : curTriad[j] # curSpec.slashPc

\* the pitch classes of chord[from..Len] are the three triad pitch classes, once each
TriadOnceEach(chord, from) ==
  /\ Len(chord) - from + 1 = 3
  /\ \A j \in 1..3 : Cardinality({i \in from..Len(chord) : chord[i] % 12 = curTriad[j]}) = 1

\* ---------------------------------------------------------------------------
\* Claims
\* ---------------------------------------------------------------------------

DefaultRegister == curLo = 36 /\ curHi = 84

\* C3: when the slash pitch class is a member of the triad (C/E, G/B, G/D), in every
\* voicing mode the emitted chord has exactly 3 pitches, its lowest pitch has the slash
\* pitch class, and its pitch classes are the three triad pitch classes once each.
\* Stated for the default register.
C3_ChordToneSlash ==
  (Emitted /\ DefaultRegister /\ SlashIsChordTone) =>
     /\ Len(curChord) = 3
     /\ curChord[1] % 12 = curSpec.slashPc
     /\ TriadOnceEach(curChord, 1)

\* C4: when the slash pitch class is not a member of the triad (C/D), in every voicing
\* mode the emitted chord has exactly 4 pitches, its lowest pitch has the slash pitch
\* class and lies strictly below the other three, and the other three have the three
\* triad pitch classes. Stated for the default register.
C4_NonChordToneSlash ==
  (Emitted /\ DefaultRegister /\ SlashIsNotChordTone) =>
     /\ Len(curChord) = 4
     /\ curChord[1] % 12 = curSpec.slashPc
     /\ curChord[1] < curChord[2]
     /\ TriadOnceEach(curChord, 2)

\* ---------------------------------------------------------------------------
\* Claims about the bounded loops
\* ---------------------------------------------------------------------------

LoopsDone == rpPc \in {"done", "idle"} /\ olPc \in {"done", "idle"}

\* the passes every loop counted so far stay within their caps, and a finished loop ends
\* where the voicing functions' loops end
LoopsBounded ==
  /\ rpGuard <= GuardMax /\ olGuard <= GuardMax
  /\ rpPass <= PassMax
  /\ rpSafety <= SafetyMax
  /\ rpPc = "done" =>
       rpX = enforceTriadSpacingSafe(rpIn, rpLo, rpHi, MinSepDefault, MaxSpreadDefault)
  /\ olPc = "done" => olN = octaveLoop(olKind, olStart, olLim, olPrev, olLo)

\* what is left to do: the stages ahead, and the passes each loop may still take
LoopsRank ==
  100 * (CASE rpPc = "start" -> 5 [] rpPc = "separate" -> 4 [] rpPc = "tighten" -> 3
           [] rpPc = "bass" -> 2 [] rpPc = "last" -> 1 [] OTHER -> 0)
  + (GuardMax - rpGuard) + (PassMax - rpPass) + (SafetyMax - rpSafety)
  + 100 * (IF olPc = "loop" THEN 1 ELSE 0) + (GuardMax - olGuard)

BadProgTexts == { <<>>, <<"X", "m">>, <<"A", "m", "/", "H">>, <<"X", "m", ",", " ", "A", "m">>, <<"A", "m", "/", "H", ",", " ", "A", "m">> }

\* bound texts that are neither a note name with octave nor an integer
MalformedBound(t) == t \in { <<"H", "2">>, <<>> }

\* the MIDI number a well-formed bound text stands for, clamped to 0..127
ResolvedBound(t) ==
  CASE t = <<"C", "2">> -> 36
    [] t = <<"C", "6">> -> 84
    [] t = <<"2", "0", "0">> -> 127

BoundsMalformed == MalformedBound(rangeLo) \/ MalformedBound(rangeHi)

BoundsCrossed == ~BoundsMalformed /\ ResolvedBound(rangeLo) >= ResolvedBound(rangeHi)

LastInvocationFailed == BoundsMalformed \/ BoundsCrossed \/ genProg \in BadProgTexts

\* C6: whenever the most recent generate invocation failed (bad chord token, bad slash
\* note, empty progression, invalid register bounds), the page shows the error and the
\* stored results are empty, seqSymbols = [] and seqChords = [], whatever an earlier
\* successful invocation had stored.
C6_FailureClearsResults ==
  LastInvocationFailed =>
    /\ statusOut.kind = "error"
    /\ seqSymbols = <<>>
    /\ seqChords = <<>>

\* a bad chord token generated after the initial successful run, at valid bounds
C6_Witness ==
  /\ genProg = <<"X", "m">>
  /\ ~BoundsMalformed /\ ~BoundsCrossed
  /\ statusOut.kind = "error"
  /\ seqChords = <<>>

\* C7: parseRangeBounds returns lo, hi with 0 <= lo < hi <= 127 or raises; it raises when
\* a text is neither a note name with octave nor an integer and when the resolved low is
\* >= the resolved high; generateSequence raises this before it parses the progression
\* and before any voicing, so no voicing runs with lo >= hi.
C7_BoundsValidated ==
  /\ statusOut.kind = "summary" =>
       /\ 0 <= statusOut.lo /\ statusOut.lo < statusOut.hi /\ statusOut.hi <= 127
       /\ statusOut.lo = ResolvedBound(rangeLo) /\ statusOut.hi = ResolvedBound(rangeHi)
  /\ "voice" \in { genTrace[i] : i \in 1..Len(genTrace) } => statusOut.kind = "summary"
  /\ BoundsMalformed =>
       /\ statusOut.kind = "error" /\ statusOut.error = "Register bounds invalid"
       /\ genTrace = <<"parseRangeBounds">>
  /\ BoundsCrossed =>
       /\ statusOut.kind = "error" /\ statusOut.error = "Low must be less than High"
       /\ genTrace = <<"parseRangeBounds">>

\* low and high both resolve but low >= high, and the progression is bad too: the bounds
\* error is the one raised, the progression was not parsed
C7_Witness ==
  /\ BoundsCrossed
  /\ genProg = <<"X", "m">>
  /\ statusOut.error = "Low must be less than High"
  /\ genTrace = <<"parseRangeBounds">>

\* the sum of the absolute semitone differences of the same-index voices of two chords
RECURSIVE VoiceMotion(_, _)
VoiceMotion(a, b) ==
  IF a = <<>> \/ b = <<>> THEN 0
  ELSE Abs(Head(a) - Head(b)) + VoiceMotion(Tail(a), Tail(b))

\* the page shows the progression "C, Am" generated in the given mode at C2-C6, weight 0
ShowsCAm(mode) ==
  /\ genProg = <<"C", ",", " ", "A", "m">>
  /\ statusOut.kind = "summary"
  /\ statusOut.voicing = mode
  /\ statusOut.weight = 0
  /\ statusOut.lo = 36 /\ statusOut.hi = 84

\* the two chords close mode emits for the symbols on the page, at C2-C6
CloseChords == voiceAll(chordSpecsOf(seqSymbols), "close", 36, 84, 0)

\* C11: for the progression "C, Am" with bassWeight 0 at the default register C2-C6, the
\* total per-voice motion between the two chords emitted in voicelead mode is at most
\* the same total for the two chords emitted in close mode (16 semitones).
C11_VoiceLedNotWorse ==
  /\ ShowsCAm("voicelead") =>
       /\ Len(seqChords) = 2 /\ Len(seqChords[1]) = 3 /\ Len(seqChords[2]) = 3
       /\ VoiceMotion(seqChords[1], seqChords[2]) <= VoiceMotion(CloseChords[1], CloseChords[2])
  /\ ShowsCAm("close") =>
       /\ seqChords = CloseChords
       /\ VoiceMotion(seqChords[1], seqChords[2]) = 16

\* "C, Am" voice-led with weight 0: C2 E3 G3, then C3 E3 A3, 14 semitones of motion
C11_Witness ==
  /\ ShowsCAm("voicelead")
  /\ seqChords = << <<36, 52, 55>>, <<48, 52, 57>> >>
  /\ VoiceMotion(seqChords[1], seqChords[2]) = 14

\* ---------------------------------------------------------------------------
\* Claims about parseChordToken
\* ---------------------------------------------------------------------------

\* the grammar [A-Ga-g][#b]?(m|maj)?(/[A-Ga-g][#b]?)?
GrammarLetters == {"A", "B", "C", "D", "E", "F", "G", "a", "b", "c", "d", "e", "f", "g"}

GrammarNotes ==
  { <<l>> : l \in GrammarLetters } \cup { <<l, a>> : l \in GrammarLetters, a \in {"#", "b"} }

GrammarBodies == { n \o s : n \in GrammarNotes, s \in { <<>>, <<"m">>, <<"m", "a", "j">> } }

GrammarTokens == GrammarBodies \cup { b \o <<"/">> \o n : b \in GrammarBodies, n \in GrammarNotes }

Parsed == tokResult # NotParsed

\* C8: parseChordToken raises an error for every non-empty token that does not match the
\* grammar: a bad chord body, a malformed slash part after a valid body, a trailing
\* slash with nothing after it, a second slash part.
C8_MalformedTokenFails ==
  (Parsed /\ tokText # <<>> /\ tokText \notin GrammarTokens) => tokResult.kind = "error"

\* the enharmonic table: the natural note of the letter, raised by "#", lowered by "b"
TablePc(name) ==
  ((CASE name[1] \in {"C", "c"} -> 0 [] name[1] \in {"D", "d"} -> 2
      [] name[1] \in {"E", "e"} -> 4 [] name[1] \in {"F", "f"} -> 5
      [] name[1] \in {"G", "g"} -> 7 [] name[1] \in {"A", "a"} -> 9
      [] name[1] \in {"B", "b"} -> 11)
   + (IF Len(name) = 1 THEN 0 ELSE IF name[2] = "#" THEN 1 ELSE 11)) % 12

\* the parts of a token of the grammar: note name, suffix, slash note (<<>> when absent)
TokSlashAt == IF \E i \in 1..Len(tokText) : tokText[i] = "/"
              THEN CHOOSE i \in 1..Len(tokText) : tokText[i] = "/"
              ELSE Len(tokText) + 1

TokBody == SubSeq(tokText, 1, TokSlashAt - 1)

TokRoot == IF Len(TokBody) >= 2 /\ TokBody[2] \in {"#", "b"} THEN SubSeq(TokBody, 1, 2)
           ELSE SubSeq(TokBody, 1, 1)

TokSuffix == SubSeq(TokBody, Len(TokRoot) + 1, Len(TokBody))

TokSlashNote == SubSeq(tokText, TokSlashAt + 1, Len(tokText))

\* C9: for every token of the grammar parseChordToken returns the root pitch class of the
\* enharmonic table for the upper-cased letter and accidental, quality minor exactly
\* when the suffix is "m" and major when it is absent or "maj", and the slash pitch class
\* of the table or none without a slash; "Am/E" gives (9, minor, 4), "C" (0, major, none).
C9_GrammarTokenParsed ==
  /\ (Parsed /\ tokText \in GrammarTokens) =>
       /\ tokResult.kind = "ok"
       /\ tokResult.rootPc = TablePc(TokRoot)
       /\ tokResult.qual = (IF TokSuffix = <<"m">> THEN "min" ELSE "maj")
       /\ tokResult.slashPc = (IF TokSlashNote = <<>> THEN NoVal ELSE TablePc(TokSlashNote))
  /\ (Parsed /\ tokText = <<"A", "m", "/", "E">>) =>
       tokResult.rootPc = 9 /\ tokResult.qual = "min" /\ tokResult.slashPc = 4
  /\ (Parsed /\ tokText = <<"C">>) =>
       tokResult.rootPc = 0 /\ tokResult.qual = "maj" /\ tokResult.slashPc = NoVal

\* "Am/E" parsed
C9_Witness ==
  /\ tokText = <<"A", "m", "/", "E">>
  /\ tokResult.kind = "ok"
  /\ tokResult.rootPc = 9 /\ tokResult.qual = "min" /\ tokResult.slashPc = 4

\* ---------------------------------------------------------------------------
\* Claims about fitChordToRange
\* ---------------------------------------------------------------------------

\* C10: fitChordToRange is idempotent: for every pitch list x and every bounds lo < hi,
\* fitChordToRange(fitChordToRange(x, lo, hi), lo, hi) equals fitChordToRange(x, lo, hi).
C10_FitIdempotent == fitPc = "twice" => fitTwice = fitOnce

\* ---------------------------------------------------------------------------
\* Claims about the triad finder
\* ---------------------------------------------------------------------------

\* the roots of the triads of a quality that contain pc according to triadPCs
ContainingRoots(pc, qual) == { r \in 0..11 : \E i \in 1..3 : triadPCs(r, qual)[i] = pc }

\* the names of the twelve pitch classes, the black keys spelled flat
FlatNames ==
  << <<"C">>, <<"D", "b">>, <<"D">>, <<"E", "b">>, <<"E">>, <<"F">>, <<"G", "b">>, <<"G">>,
     <<"A", "b">>, <<"A">>, <<"B", "b">>, <<"B">> >>

NamesIn(list) == { list[i] : i \in 1..Len(list) }

LetterIndex(c) == CHOOSE k \in 1..7 : <<"A", "B", "C", "D", "E", "F", "G">>[k] = c

\* no name twice, and the names in the order of their letters
Alphabetical(list) ==
  \A i, j \in 1..Len(list) : i < j => LetterIndex(list[i][1]) < LetterIndex(list[j][1])

\* the list names exactly the given roots, once each, with the suffix, in alphabetical order
ListsExactly(list, roots, suf) ==
  /\ NamesIn(list) = { FlatNames[r + 1] \o suf : r \in roots }
  /\ Len(list) = Cardinality(roots)
  /\ Alphabetical(list)

Listed == noteQueryOut.kind = "lists"

\* C12: for every pitch class pc in 0..11, triadsContainingPC(pc) returns exactly the triads
\* that contain pc according to triadPCs: the major list names exactly the 3 roots pc,
\* pc - 4, pc - 7 (mod 12) and the minor list exactly the 3 roots pc, pc - 3, pc - 7, each
\* without duplicates, spelled flat and sorted alphabetically; for pc = 0 the lists are
\* {C, Ab, F} and {Cm, Am, Fm}.
C12_TriadsContaining ==
  Listed =>
    /\ noteQueryOut.pc \in 0..11
    /\ ContainingRoots(noteQueryOut.pc, "maj")
         = { noteQueryOut.pc, (noteQueryOut.pc + 8) % 12, (noteQueryOut.pc + 5) % 12 }
    /\ ContainingRoots(noteQueryOut.pc, "min")
         = { noteQueryOut.pc, (noteQueryOut.pc + 9) % 12, (noteQueryOut.pc + 5) % 12 }
    /\ Cardinality(ContainingRoots(noteQueryOut.pc, "maj")) = 3
    /\ Cardinality(ContainingRoots(noteQueryOut.pc, "min")) = 3
    /\ ListsExactly(noteQueryOut.major, ContainingRoots(noteQueryOut.pc, "maj"), <<>>)
    /\ ListsExactly(noteQueryOut.minor, ContainingRoots(noteQueryOut.pc, "min"), <<"m">>)
    /\ noteQueryOut.pc = 0 =>
         /\ NamesIn(noteQueryOut.major) = { <<"C">>, <<"A", "b">>, <<"F">> }
         /\ NamesIn(noteQueryOut.minor) = { <<"C", "m">>, <<"A", "m">>, <<"F", "m">> }

\* "C" typed: the lists are Ab, C, F and Am, Cm, Fm
C12_Witness ==
  /\ noteQueryIn = <<"C">>
  /\ Listed /\ noteQueryOut.pc = 0
  /\ noteQueryOut.major = << <<"A", "b">>, <<"C">>, <<"F">> >>
  /\ noteQueryOut.minor = << <<"A", "m">>, <<"C", "m">>, <<"F", "m">> >>

\* ---------------------------------------------------------------------------
\* Claims about the MIDI export
\* ---------------------------------------------------------------------------

\* the track of a file: what follows the 14 bytes of MThd and the 8 bytes that open MTrk
TrackOf(file) == SubSeq(file, 23, Len(file))

\* the note events of a track: what follows the tempo (7 bytes), the time signature (8)
\* and the program change (3)
NoteBytes(track) == SubSeq(track, 19, Len(track))

\* the number of bytes of the variable-length quantity that opens bytes
RECURSIVE VlqLen(_)
VlqLen(bytes) == IF Head(bytes) >= 128 THEN 1 + VlqLen(Tail(bytes)) ELSE 1

\* the value of the variable-length quantity that opens bytes, acc being the value so far
RECURSIVE VlqValue(_, _)
VlqValue(bytes, acc) ==
  IF Head(bytes) >= 128 THEN VlqValue(Tail(bytes), acc * 128 + (Head(bytes) - 128))
  ELSE acc * 128 + Head(bytes)

RECURSIVE EventsOf(_)

\* the event whose status byte opens bytes, delta being its delta-time
EventAt(delta, bytes) ==
  IF bytes[1] = 255
  THEN << [delta |-> delta, kind |-> "meta", a |-> bytes[2], b |-> bytes[3]] >>
       \o EventsOf(SubSeq(bytes, 4 + bytes[3], Len(bytes)))
  ELSE << [delta |-> delta, kind |-> IF bytes[1] = 144 /\ bytes[3] > 0 THEN "on"
                                     ELSE IF bytes[1] = 144 THEN "off" ELSE "other",
           a |-> bytes[2], b |-> bytes[3]] >>
       \o EventsOf(SubSeq(bytes, 4, Len(bytes)))

\* the events of a byte sequence; a note-on with velocity 0 counts as the note-off it is
EventsOf(bytes) ==
  IF bytes = <<>> THEN <<>>
  ELSE EventAt(VlqValue(bytes, 0), SubSeq(bytes, VlqLen(bytes) + 1, Len(bytes)))

\* the pitches of a chord as the export plays them: clamped pitches, once each, ascending
RECURSIVE AscendingOf(_)
AscendingOf(pitchSet) ==
  IF pitchSet = {} THEN <<>>
  ELSE <<CHOOSE p \in pitchSet : \A q \in pitchSet : p <= q>>
       \o AscendingOf(pitchSet \ {CHOOSE p \in pitchSet : \A q \in pitchSet : p <= q})

PlayedPitches(chord) == AscendingOf({ chord[i] : i \in 1..Len(chord) })

\* kinds, pitches and delta-times a block-style chord must show: its note-ons at delta 0,
\* then its note-offs, the first after ticks, the others at delta 0
ChordShape(pitches, ticks) ==
  [i \in 1..(2 * Len(pitches)) |->
     IF i <= Len(pitches) THEN [delta |-> 0, kind |-> "on", a |-> pitches[i]]
     ELSE [delta |-> IF i = Len(pitches) + 1 THEN ticks ELSE 0, kind |-> "off",
           a |-> pitches[i - Len(pitches)]]]

RECURSIVE BlockShape(_, _)
BlockShape(chords, ticks) ==
  IF chords = <<>> THEN << [delta |-> 0, kind |-> "meta", a |-> 47] >>
  ELSE ChordShape(PlayedPitches(Head(chords)), ticks) \o BlockShape(Tail(chords), ticks)

\* delta-time, kind and pitch (or meta type) of every event
ShapeOf(events) ==
  [i \in 1..Len(events) |-> [delta |-> events[i].delta, kind |-> events[i].kind, a |-> events[i].a]]

BuiltBlock == mdPc = "built" /\ mdOpts.style = "block"

\* C13: for the single chord [60,64,67] with style block, bpm 60, duration 2 beats and 480
\* ticks per beat, the track contains, after the tempo, time-signature and program-change
\* events, exactly 3 note-on events at delta-time 0 (pitches 60, 64, 67), then exactly 3
\* note-off events, the first at delta-time 960 and the other two at 0, then an
\* end-of-track meta-event; in general every block-style chord emits all its note-ons
\* before any of its note-offs.
C13_BlockLayout ==
  BuiltBlock =>
    /\ SubSeq(TrackOf(mdFile), 1, 18) = trackStart(mdOpts.bpm)
    /\ ShapeOf(EventsOf(NoteBytes(TrackOf(mdFile))))
         = BlockShape(mdEvents, 24 * mdOpts.chordDurationBeats)
    /\ (mdEvents = << <<60, 64, 67>> >> /\ mdOpts.bpm = 60 /\ mdOpts.chordDurationBeats = 40) =>
         ShapeOf(EventsOf(NoteBytes(TrackOf(mdFile))))
           = << [delta |-> 0, kind |-> "on", a |-> 60], [delta |-> 0, kind |-> "on", a |-> 64],
                [delta |-> 0, kind |-> "on", a |-> 67], [delta |-> 960, kind |-> "off", a |-> 60],
                [delta |-> 0, kind |-> "off", a |-> 64], [delta |-> 0, kind |-> "off", a |-> 67],
                [delta |-> 0, kind |-> "meta", a |-> 47] >>

\* the file built for [60,64,67], block, bpm 60, 2 beats: the first note-off carries the
\* delta-time bytes 0x87 0x40 (960)
C13_Witness ==
  /\ BuiltBlock
  /\ mdEvents = << <<60, 64, 67>> >> /\ mdOpts.bpm = 60 /\ mdOpts.chordDurationBeats = 40
  /\ SubSeq(NoteBytes(TrackOf(mdFile)), 13, 17) = <<135, 64, 144, 60, 0>>
  /\ Len(EventsOf(NoteBytes(TrackOf(mdFile)))) = 7

\* the bytes of a variable-length quantity: every byte but the last has bit 7 set
WellFormedVlq(bytes) ==
  /\ bytes # <<>>
  /\ bytes[Len(bytes)] < 128
  /\ \A i \in 1..(Len(bytes) - 1) : bytes[i] >= 128

\* C15: pushVar terminates for every delta-time buildMidiFile can pass to it, also for
\* block-style chord durations of 2^28 ticks or more, and emits a variable-length
\* quantity whose last byte is the only one with bit 7 clear: it never pushes more bytes
\* than the five groups of 7 bits a 32-bit value has, and what it returns is the quantity of value.
C15_PushVarTerminates ==
  /\ Len(pvOut) <= 5
  /\ pvPc = "done" => WellFormedVlq(pvOut) /\ VlqValue(pvOut, 0) = pvValue

\* the same without the delta-times of 2^28 ticks or more
C15_BelowLimit ==
  pvValue < 268435456 =>
    /\ Len(pvOut) <= 4
    /\ pvPc = "done" => WellFormedVlq(pvOut) /\ VlqValue(pvOut, 0) = pvValue

\* a delta-time of 2^28 ticks or more: the output loop has pushed four bytes, buffer is -1
\* and every further pass pushes 0xFF and leaves buffer as it is
C15_Stuck ==
  /\ pvValue >= 268435456
  /\ pvPc = "out" /\ pvBuffer = -1 /\ shiftRight(pvBuffer, 8) = pvBuffer
  /\ Len(pvOut) = MaxVarBytes

\* ---------------------------------------------------------------------------
\* Claims about the download button
\* ---------------------------------------------------------------------------

\* the chords the most recent generate invocation computes, from the text it read and the
\* settings the status area names
LastGenerated ==
  generateSequence(genProg, statusOut.voicing, statusOut.weight, rangeLo, rangeHi).chords

\* C14: in any interleaving of generate and download requests, a download request issued
\* while no generated sequence is stored (the most recent generation failed) only shows
\* the prompt and builds no MIDI file; a MIDI file is built only from the chord sequence
\* stored by the most recent successful generation, never from a stale earlier one.
C14_ExportPrecondition ==
  [][dlClicks' # dlClicks =>
       IF LastInvocationFailed
       THEN dlOut'.kind = "alert" /\ dlOut'.alert # "" /\ dlOut'.bytes = <<>>
       ELSE /\ dlOut'.kind = "file"
            /\ dlOut'.bytes = buildMidiFile(LastGenerated, midiOpts(60, 40, dlOut'.style))
            /\ Len(LastGenerated) > 0]_vars

\* the most recent generation failed, nothing is stored, and the second click on the
\* download button only prompted
C14_Witness ==
  /\ dlClicks = 2
  /\ dlOut.kind = "alert"
  /\ LastInvocationFailed
  /\ seqChords = <<>>

\* ---------------------------------------------------------------------------
\* Claims about spacing, order and register of the emitted chords
\* ---------------------------------------------------------------------------

\* C16: every chord with at least 2 pitches emitted by generateSequence in any mode at the
\* default register C2-C6, being a result of enforceTriadSpacingSafe with minSep = 7, has
\* its second-lowest pitch at least 7 semitones above its lowest pitch: the
\* spread-tightening step does not undo the separation of the first step.
C16_BottomInterval ==
  (Emitted /\ DefaultRegister /\ Len(curChord) >= 2) =>
    curChord[2] - curChord[1] >= MinSepDefault

\* root, third and fifth of the chord symbol being voiced
SpecRoot == curSpec.rootMidi % 12

SpecThird == (SpecRoot + (IF curSpec.qual = "min" THEN 3 ELSE 4)) % 12

SpecFifth == (SpecRoot + 7) % 12

\* the pitch classes of the emitted chord, lowest pitch first
EmittedPcs == [i \in 1..Len(curChord) |-> curChord[i] % 12]

SlashIs(pc) == curSpec.slashPc # NoVal /\ curSpec.slashPc % 12 = pc

\* C17: in open mode at the default register C2-C6, for every triad and any previous bass,
\* the pitch classes of the emitted chord, read from the lowest pitch to the highest, are
\* [root, fifth, third] when there is no slash or the slash is the root, [third, root,
\* fifth] when the slash is the third and [fifth, third, root] when the slash is the
\* fifth, three ascending pitches: range fitting and spacing repair do not reorder them.
C17_OpenOrder ==
  (Emitted /\ curMode = "open" /\ DefaultRegister) =>
    /\ (curSpec.slashPc = NoVal \/ SlashIs(SpecRoot)) =>
         EmittedPcs = <<SpecRoot, SpecFifth, SpecThird>> /\ StrictlyAscending(curChord)
    /\ SlashIs(SpecThird) =>
         EmittedPcs = <<SpecThird, SpecRoot, SpecFifth>> /\ StrictlyAscending(curChord)
    /\ SlashIs(SpecFifth) =>
         EmittedPcs = <<SpecFifth, SpecThird, SpecRoot>> /\ StrictlyAscending(curChord)

\* Am/C in open mode: the third C in the bass, then the root A and the fifth E
C17_Witness ==
  /\ curMode = "open" /\ DefaultRegister
  /\ curSpec.qual = "min" /\ SpecRoot = 9 /\ SlashIs(0)
  /\ EmittedPcs = <<0, 9, 4>>

\* the candidates enumerated for the chord symbol spec
Enumerated(spec) == candidatesForTriad(spec.rootMidi % 12, spec.qual, 60, curLo, curHi)

\* the chords built from the candidates cands after the chord prev, in their order
RECURSIVE BuiltFrom(_, _, _)
BuiltFrom(spec, prev, cands) ==
  IF cands = <<>> THEN <<>>
  ELSE <<voiceLeadCandidate(Head(cands), spec, prevBassOfPrev(prev), curLo, curHi, curWeight)>>
       \o BuiltFrom(spec, prev, Tail(cands))

\* the score of the chord ch after the chord prev, in tenths: the same-index motion over
\* the overlapping voices and bassWeight times the motion of the bass
ScoreAfter(prev, ch) ==
  IF prev = <<>> THEN 0
  ELSE 10 * VoiceMotion(prev, ch) + curWeight * Abs(ch[1] - prev[1])

\* the scores of the chords built
RECURSIVE ScoresAfter(_, _)
ScoresAfter(prev, built) ==
  IF built = <<>> THEN <<>>
  ELSE <<ScoreAfter(prev, Head(built))>> \o ScoresAfter(prev, Tail(built))

\* the k-th score is minimal and the earliest such
EarliestMinimal(scores, k) ==
  /\ \A j \in 1..Len(scores) : scores[j] >= scores[k]
  /\ \A j \in 1..(k - 1) : scores[j] > scores[k]

\* chord is the one of built that the scores select
SelectedAmong(chord, built, scores) ==
  \E k \in 1..Len(built) : chord = built[k] /\ EarliestMinimal(scores, k)

\* the first enumerated candidate: the root-position inversion at octave shift -2
FirstEnumerated(spec) ==
  candidateOf(triadPCs(spec.rootMidi % 12, spec.qual), -2, 60, curLo, curHi)

\* C18: in voicelead mode every chord after the first is the chord built (slash bass,
\* spacing repair) from a candidate whose score against the chord emitted before it is
\* minimal among all enumerated candidates, the earliest such candidate; for the first
\* chord every candidate scores 0 and the chord built from the first enumerated
\* candidate, the root-position inversion at octave shift -2, is emitted.
C18_MinimalScore ==
  [][curMode = "voicelead" =>
       \E built \in { BuiltFrom(curSpec', curChord, Enumerated(curSpec')) } :
         /\ \E scores \in { ScoresAfter(curChord, built) } :
              /\ SelectedAmong(curChord', built, scores)
              /\ curChord = <<>> => \A j \in 1..Len(scores) : scores[j] = 0
         /\ curChord = <<>> =>
              /\ Enumerated(curSpec')[1] = FirstEnumerated(curSpec')
              /\ curChord' = built[1]]_vars

\* Am emitted after another chord in voicelead mode with weight 0: after C [36,52,55] the
\* candidate [48,52,57] has the least motion, while as a first chord Am is [45,60,64]
C18_Witness ==
  /\ curMode = "voicelead" /\ DefaultRegister /\ curWeight = 0
  /\ curSpec.qual = "min" /\ SpecRoot = 9 /\ curSpec.slashPc = NoVal
  /\ curChord = <<48, 52, 57>>

\* some octave of the pitch class of pitch lies in lo..59
OctaveBelowCeiling(pitch, lo) == \E m \in lo..(BASS_CEILING_MIDI - 1) : m % 12 = pitch % 12

\* C19: whenever the register allows it (lo < 60 and some octave of the pitch class of the
\* bass lies in lo..59), the lowest pitch of every chord emitted by generateSequence, in
\* every mode, is below MIDI 60 (C4); when lo >= 60, enforceBassBelowC4Safe only re-fits
\* the chord to the range.
C19_BassBelowCeiling ==
  Emitted =>
    /\ (curLo < BASS_CEILING_MIDI /\ OctaveBelowCeiling(curChord[1], curLo)) =>
         /\ curChord[1] < BASS_CEILING_MIDI
         /\ \A i \in 1..Len(curChord) : curChord[1] <= curChord[i]
    /\ curLo >= BASS_CEILING_MIDI =>
         enforceBassBelowC4Safe(curChord, curLo, curHi) = fitChordToRange(curChord, curLo, curHi)

\* C in close mode at C2-C6: the close position [60,64,67] has its bass brought down to 48
C19_Witness ==
  /\ curMode = "close" /\ DefaultRegister
  /\ SpecRoot = 0 /\ curSpec.qual = "maj" /\ curSpec.slashPc = NoVal
  /\ curChord = <<48, 76, 79>>

====
